---- MODULE Spec2Model ----
(***************************************************************************)
(* LingoVault: the Smart Import engine and the vocabulary collection.      *)
(*                                                                         *)
(* A JavaScript string is modelled as a sequence of characters, each       *)
(* character a one-letter TLA+ string.  A WordItem is a record.  The React *)
(* state hook that owns the collection (useState in App.tsx) is modelled   *)
(* by the committed state `words`, the queue of pending updater functions  *)
(* `queue` and the flag `fiberLanes` (the App component has pending work). *)
(***************************************************************************)
EXTENDS Integers, Sequences, FiniteSets, TLC

VARIABLES
    words,        \* App.tsx:96   committed value of the words state
    queue,        \* pending setWords updaters, oldest first
    fiberLanes,   \* TRUE iff the App component has updates not yet rendered
    lastRender,   \* history: the state and the updaters the last render applied
    importToast,  \* App.tsx:611  count shown by the last notifyImportResult
    nextId,       \* next value crypto.randomUUID() returns
    inbox,        \* files the user is going to upload, next first
    lastCall,     \* history: the last mergeImportedWords call
    activePage,   \* App.tsx:103 the page on screen
    created,      \* number of Smart Import instances mounted so far
    started,      \* number of Smart Import operations started so far
    inst,         \* part_001:18 the state of each Smart Import instance
    essays,       \* App.tsx:120 the essays state, as record ids
    essayStore,   \* part_001:37 the essays in localStorage, as record ids
    localStorage, \* App.tsx:155 the list stored under lingovault_data, as JSON.parse reads it
    hasInitializedRef, \* App.tsx:127 TRUE once the effects of the first commit have run
    probe         \* the input and the results of a function under study

(***************************************************************************)
(* Bounds of the model.                                                    *)
(***************************************************************************)
MaxPrev == 2
MaxIncoming == 2

(***************************************************************************)
(* Strings.                                                                *)
(***************************************************************************)
UpperChars ==
    <<"A", "B", "C", "D", "E", "F", "G", "H", "I", "J", "K", "L", "M",
      "N", "O", "P", "Q", "R", "S", "T", "U", "V", "W", "X", "Y", "Z">>
LowerChars ==
    <<"a", "b", "c", "d", "e", "f", "g", "h", "i", "j", "k", "l", "m",
      "n", "o", "p", "q", "r", "s", "t", "u", "v", "w", "x", "y", "z">>

\* String.prototype.toLowerCase, one character
LowerChar(c) ==
    IF \E i \in DOMAIN UpperChars : UpperChars[i] = c
    THEN LowerChars[CHOOSE i \in DOMAIN UpperChars : UpperChars[i] = c]
    ELSE c

ToLowerCase(s) == [i \in DOMAIN s |-> LowerChar(s[i])]

\* the characters String.prototype.trim removes
IsWhitespace(c) == c \in {" ", "\t", "\n", "\r"}

RECURSIVE TrimStart(_)
TrimStart(s) ==
    IF s # <<>> /\ IsWhitespace(Head(s)) THEN TrimStart(Tail(s)) ELSE s

RECURSIVE TrimEnd(_)
TrimEnd(s) ==
    IF s # <<>> /\ IsWhitespace(s[Len(s)])
    THEN TrimEnd(SubSeq(s, 1, Len(s) - 1))
    ELSE s

Trim(s) == TrimEnd(TrimStart(s))

(***************************************************************************)
(* WordItem (types.ts) and normalizeWordItem (App.tsx:83).                 *)
(***************************************************************************)
NoId == 0
NoTags == [some |-> FALSE, list |-> <<>>]

WordItem(id, english, source) ==
    [id |-> id, english |-> english, chinese |-> <<>>, example |-> <<>>,
     tags |-> NoTags, isMastered |-> 0, createdAt |-> 0, source |-> source]

\* id: word.id || crypto.randomUUID(); the other fields are kept
NormalizeWordItem(word, fresh) ==
    [word EXCEPT !.id = IF word.id = NoId THEN fresh ELSE word.id]

\* importedWords.map(item => normalizeWordItem(item, importSource)):
\* the k-th item without an id takes the k-th fresh identifier
RECURSIVE NormalizeAll(_, _)
NormalizeAll(items, fresh) ==
    IF items = <<>> THEN <<>>
    ELSE <<NormalizeWordItem(Head(items), fresh)>>
         \o NormalizeAll(Tail(items),
                         IF Head(items).id = NoId THEN fresh + 1 ELSE fresh)

MissingIds(items) == Cardinality({i \in DOMAIN items : items[i].id = NoId})

(***************************************************************************)
(* More strings.  A string is a sequence of UTF-16 code units.  Units that *)
(* cannot be typed here are named: the CJK ideographs of the model, the    *)
(* full-width punctuation the regular expressions name, and the two halves *)
(* of a surrogate pair (one character outside the basic plane).            *)
(***************************************************************************)
CjkChars == {"U+732B", "U+8DD1"}           \* [一-鿿]: two ideographs
FullStops == {"U+3002", "U+FF0E", "."}     \* [。．\.]
LeadStrip == {":", "U+FF1A", "."}          \* [\s:：\.] without the whitespace
TagSeparators == {"/", ";", ",", "U+FF0C", "U+3001"}   \* [\/;,，、\s] without \s
HighSurrogate == "U+D83D"
LowSurrogate == "U+DE00"

\* containsCjk (importUtils.ts:319): /[一-鿿]/.test(value)
ContainsCjk(s) == \E i \in DOMAIN s : s[i] \in CjkChars

\* [...s]: the string by code points, a surrogate pair being one element
RECURSIVE CodePoints(_)
CodePoints(s) ==
    IF s = <<>> THEN <<>>
    ELSE IF Len(s) >= 2 /\ s[1] = HighSurrogate /\ s[2] = LowSurrogate
    THEN <<SubSeq(s, 1, 2)>> \o CodePoints(SubSeq(s, 3, Len(s)))
    ELSE <<SubSeq(s, 1, 1)>> \o CodePoints(Tail(s))

\* [...s].findIndex(char => /[一-鿿]/.test(char)), -1 when there is none
FirstCjkIndex(s) ==
    LET cps == CodePoints(s)
        hits == {i \in DOMAIN cps : ContainsCjk(cps[i])}
    IN  IF hits = {} THEN -1
        ELSE (CHOOSE i \in hits : \A j \in hits : i <= j) - 1

\* String.prototype.slice(start) and slice(0, end), for 0 <= start, end
SliceFrom(s, start) == SubSeq(s, start + 1, Len(s))
SliceTo(s, end) == SubSeq(s, 1, IF end < Len(s) THEN end ELSE Len(s))

\* replace(/[。．\.]+$/g, '')
RECURSIVE StripTrailingFullStops(_)
StripTrailingFullStops(s) ==
    IF s # <<>> /\ s[Len(s)] \in FullStops
    THEN StripTrailingFullStops(SubSeq(s, 1, Len(s) - 1))
    ELSE s

\* replace(/^[\s:：\.]+/, '')
RECURSIVE StripLeadingPunctuation(_)
StripLeadingPunctuation(s) ==
    IF s # <<>> /\ (IsWhitespace(Head(s)) \/ Head(s) \in LeadStrip)
    THEN StripLeadingPunctuation(Tail(s))
    ELSE s

\* does s start with the non-empty string d at 1-based position i
StartsWithAt(s, d, i) ==
    /\ i + Len(d) - 1 <= Len(s)
    /\ \A k \in DOMAIN d : s[i + k - 1] = d[k]

\* String.prototype.split(d) for a non-empty separator string d
RECURSIVE SplitFrom(_, _, _, _)
SplitFrom(s, d, i, current) ==
    IF i > Len(s) THEN <<current>>
    ELSE IF StartsWithAt(s, d, i)
    THEN <<current>> \o SplitFrom(s, d, i + Len(d), <<>>)
    ELSE SplitFrom(s, d, i + 1, Append(current, s[i]))

Split(s, d) == SplitFrom(s, d, 1, <<>>)

\* split(/\r?\n/)
RECURSIVE SplitLinesFrom(_, _, _)
SplitLinesFrom(s, i, current) ==
    IF i > Len(s) THEN <<current>>
    ELSE IF s[i] = "\n" THEN <<current>> \o SplitLinesFrom(s, i + 1, <<>>)
    ELSE IF s[i] = "\r" /\ i < Len(s) /\ s[i + 1] = "\n"
    THEN <<current>> \o SplitLinesFrom(s, i + 2, <<>>)
    ELSE SplitLinesFrom(s, i + 1, Append(current, s[i]))

SplitLines(s) == SplitLinesFrom(s, 1, <<>>)

NonEmpty(s) == s # <<>>
NonBlank(s) == Trim(s) # <<>>

Digits == <<"0", "1", "2", "3", "4", "5", "6", "7", "8", "9">>

\* String(n) for an integer n >= 0
RECURSIVE NatToString(_)
NatToString(n) ==
    IF n < 10 THEN <<Digits[n + 1]>>
    ELSE NatToString(n \div 10) \o <<Digits[(n % 10) + 1]>>

IsDigit(c) == \E i \in DOMAIN Digits : Digits[i] = c
DigitValue(c) == (CHOOSE i \in DOMAIN Digits : Digits[i] = c) - 1

RECURSIVE DecimalValue(_)
DecimalValue(s) ==
    IF s = <<>> THEN 0
    ELSE 10 * DecimalValue(SubSeq(s, 1, Len(s) - 1)) + DigitValue(s[Len(s)])

(***************************************************************************)
(* JavaScript values.  A value is a tuple whose first element is its kind. *)
(* A number is finite, counted in halves (so 3 is 6 halves and 1.5 is 3),  *)
(* or an infinity.  An object is a function from its own keys to values.   *)
(***************************************************************************)
JStr(s) == <<"string", s>>
JNum(halves) == <<"number", "finite", halves>>
JInf(sign) == <<"number", "infinite", sign>>
JBool(b) == <<"boolean", b>>
JNull == <<"null">>
JUndefined == <<"undefined">>
JArr(items) == <<"array", items>>
JObj(fields) == <<"object", fields>>
JFunction == <<"function">>

KindOf(v) == v[1]
EmptyFields == [k \in {} |-> JUndefined]

\* obj[key] = value
Put(fields, key, value) ==
    [k \in DOMAIN fields \cup {key} |-> IF k = key THEN value ELSE fields[k]]

\* members every object inherits from Object.prototype (some of them)
K_toString == <<"t", "o", "S", "t", "r", "i", "n", "g">>
PrototypeKeys ==
    {K_toString, <<"v", "a", "l", "u", "e", "O", "f">>,
     <<"c", "o", "n", "s", "t", "r", "u", "c", "t", "o", "r">>}

\* current[segment] for an object
GetMember(fields, key) ==
    IF key \in DOMAIN fields THEN fields[key]
    ELSE IF key \in PrototypeKeys THEN JFunction
    ELSE JUndefined

\* Number(segment) for a trimmed, non-empty segment: a run of decimal digits
\* is its value; the other segments of the model are NaN (-1 here)
SegmentNumber(segment) ==
    IF \A i \in DOMAIN segment : IsDigit(segment[i]) THEN DecimalValue(segment) ELSE -1

(***************************************************************************)
(* getValueByPath (importUtils.ts:92).                                     *)
(***************************************************************************)
RECURSIVE WalkPath(_, _)
WalkPath(current, segments) ==
    IF segments = <<>>
    THEN (IF KindOf(current) \in {"null", "undefined"} THEN JStr(<<>>) ELSE current)
    ELSE IF KindOf(current) \in {"null", "undefined"} THEN JStr(<<>>)
    ELSE IF KindOf(current) = "array"
    THEN LET index == SegmentNumber(Head(segments))
         IN  IF index < 0 \/ index >= Len(current[2]) THEN JStr(<<>>)
             ELSE WalkPath(current[2][index + 1], Tail(segments))
    ELSE IF KindOf(current) = "object"
    THEN WalkPath(GetMember(current[2], Head(segments)), Tail(segments))
    ELSE JStr(<<>>)

UndefinedString == <<"#undefined">>

PathSegments(path) ==
    LET pieces == Split(path, <<".">>)
    IN  SelectSeq([i \in DOMAIN pieces |-> Trim(pieces[i])], NonEmpty)

GetValueByPath(input, path) ==
    IF path = UndefinedString \/ path = <<>> THEN JStr(<<>>)
    ELSE WalkPath(input, PathSegments(path))

(***************************************************************************)
(* coerceToString (importUtils.ts:207).  String(value) throws a TypeError  *)
(* for an object that has an own member named toString: that member is     *)
(* data, not a function, and Object.prototype.valueOf returns the object.  *)
(***************************************************************************)
S_objectObject ==
    <<"[", "o", "b", "j", "e", "c", "t", " ", "O", "b", "j", "e", "c", "t", "]">>

NumberToString(v) ==
    IF v[2] = "infinite"
    THEN (IF v[3] < 0 THEN <<"-">> ELSE <<>>)
         \o <<"I", "n", "f", "i", "n", "i", "t", "y">>
    ELSE LET h == v[3]
             a == IF h < 0 THEN -h ELSE h
         IN  (IF h < 0 THEN <<"-">> ELSE <<>>) \o NatToString(a \div 2)
             \o (IF a % 2 = 1 THEN <<".", "5">> ELSE <<>>)

RECURSIVE StringThrows(_)
StringThrows(v) ==
    IF KindOf(v) = "object" THEN K_toString \in DOMAIN v[2]
    ELSE IF KindOf(v) = "array" THEN \E i \in DOMAIN v[2] : StringThrows(v[2][i])
    ELSE FALSE

RECURSIVE ToStringValue(_)
RECURSIVE JoinValues(_)
JoinValues(items) ==
    IF items = <<>> THEN <<>>
    ELSE (IF KindOf(Head(items)) \in {"null", "undefined"} THEN <<>>
          ELSE ToStringValue(Head(items)))
         \o (IF Len(items) > 1 THEN <<",">> \o JoinValues(Tail(items)) ELSE <<>>)

\* String(value) when it does not throw
ToStringValue(v) ==
    CASE KindOf(v) = "string" -> v[2]
      [] KindOf(v) = "number" -> NumberToString(v)
      [] KindOf(v) = "boolean" -> IF v[2] THEN <<"t", "r", "u", "e">>
                                   ELSE <<"f", "a", "l", "s", "e">>
      [] KindOf(v) = "array" -> JoinValues(v[2])
      [] KindOf(v) = "object" -> S_objectObject
      [] KindOf(v) = "function" -> <<"f", "u", "n", "c", "t", "i", "o", "n">>
      [] OTHER -> <<>>

CoerceToString(v) ==
    IF KindOf(v) \in {"null", "undefined"} THEN <<>> ELSE ToStringValue(v)

(***************************************************************************)
(* parseDelimitedLine (importUtils.ts:13).                                 *)
(***************************************************************************)
\* variant: a delimiter ends the field inside quotes as well
RECURSIVE ParseIgnoringQuotes(_, _, _, _, _, _)
ParseIgnoringQuotes(text, delimiter, i, current, inQuote, result) ==
    IF i > Len(text) THEN Append(result, current)
    ELSE IF text[i] = "\""
    THEN IF inQuote /\ i + 1 <= Len(text) /\ text[i + 1] = "\""
         THEN ParseIgnoringQuotes(text, delimiter, i + 2, Append(current, "\""),
                                  inQuote, result)
         ELSE ParseIgnoringQuotes(text, delimiter, i + 1, current, ~inQuote, result)
    ELSE IF Len(delimiter) > 0 /\ StartsWithAt(text, delimiter, i)
    THEN ParseIgnoringQuotes(text, delimiter, i + Len(delimiter), <<>>, inQuote,
                             Append(result, current))
    ELSE ParseIgnoringQuotes(text, delimiter, i + 1, Append(current, text[i]),
                             inQuote, result)

RECURSIVE ParseDelimitedFrom(_, _, _, _, _, _)
ParseDelimitedFrom(text, delimiter, i, current, inQuote, result) ==
    IF i > Len(text) THEN Append(result, current)
    ELSE IF text[i] = "\""
    THEN IF inQuote /\ i + 1 <= Len(text) /\ text[i + 1] = "\""
         THEN ParseDelimitedFrom(text, delimiter, i + 2, Append(current, "\""),
                                 inQuote, result)
         ELSE ParseDelimitedFrom(text, delimiter, i + 1, current, ~inQuote, result)
    ELSE IF ~inQuote /\ Len(delimiter) > 0 /\ StartsWithAt(text, delimiter, i)
    THEN ParseDelimitedFrom(text, delimiter, i + Len(delimiter), <<>>, inQuote,
                            Append(result, current))
    ELSE ParseDelimitedFrom(text, delimiter, i + 1, Append(current, text[i]),
                            inQuote, result)

ParseDelimitedLine(text, delimiter) ==
    ParseDelimitedFrom(text, delimiter, 1, <<>>, FALSE, <<>>)

(***************************************************************************)
(* buildDelimitedRecords (importUtils.ts:46).  skipRows is a number of the *)
(* plan: a non-negative integer or Infinity.                               *)
(***************************************************************************)
K_column == <<"c", "o", "l", "u", "m", "n">>
K_parts == <<"_", "_", "p", "a", "r", "t", "s">>
K_line == <<"_", "_", "l", "i", "n", "e">>

ColumnKey(n) == K_column \o NatToString(n)

StringArray(strings) == JArr([i \in DOMAIN strings |-> JStr(strings[i])])

\* variant: a record without the decimal index keys
RECURSIVE FillRecordWithoutIndex(_, _, _, _)
FillRecordWithoutIndex(fields, headers, cols, idx) ==
    IF idx >= Len(headers) THEN fields
    ELSE LET value == JStr(IF idx + 1 <= Len(cols) THEN cols[idx + 1] ELSE <<>>)
             a == Put(fields, headers[idx + 1], value)
             b == Put(a, ColumnKey(idx + 1), value)
         IN  FillRecordWithoutIndex(b, headers, cols, idx + 1)

\* headers.forEach((header, idx) => ...): three assignments per header, in order
RECURSIVE FillRecord(_, _, _, _)
FillRecord(fields, headers, cols, idx) ==
    IF idx >= Len(headers) THEN fields
    ELSE LET value == JStr(IF idx + 1 <= Len(cols) THEN cols[idx + 1] ELSE <<>>)
             a == Put(fields, headers[idx + 1], value)
             b == Put(a, ColumnKey(idx + 1), value)
             c == Put(b, NatToString(idx), value)
         IN  FillRecord(c, headers, cols, idx + 1)

DelimitedRecord(headers, cols) ==
    JObj(Put(FillRecord(EmptyFields, headers, cols, 0), K_parts, StringArray(cols)))

\* Math.min(skipRows, limit) and the start of the for loop, for skipRows >= 0
MinWith(skipRows, limit) ==
    IF skipRows[2] = "infinite" THEN limit
    ELSE IF skipRows[3] \div 2 < limit THEN skipRows[3] \div 2 ELSE limit

\* variant: without header row the sample line is not a data line
BuildRecordsAfterSample(rawData, delimiter, hasHeader, skipRows) ==
    LET split == SplitLines(rawData)
        lines == SelectSeq([i \in DOMAIN split |-> TrimEnd(split[i])], NonBlank)
        effectiveDelimiter == IF delimiter = <<>> THEN <<",">> ELSE delimiter
        headerIndex == MinWith(skipRows, Len(lines) - 1)
        headerCols == ParseDelimitedLine(lines[headerIndex + 1], effectiveDelimiter)
        headers == IF hasHeader
                   THEN [i \in DOMAIN headerCols |-> Trim(headerCols[i])]
                   ELSE [i \in DOMAIN headerCols |-> ColumnKey(i)]
        dataStart == headerIndex + 1
    IN  IF Len(lines) = 0 THEN <<>>
        ELSE [k \in 1..(Len(lines) - dataStart) |->
                 DelimitedRecord(headers,
                     ParseDelimitedLine(lines[dataStart + k], effectiveDelimiter))]

BuildDelimitedRecords(rawData, delimiter, hasHeader, skipRows) ==
    LET split == SplitLines(rawData)
        lines == SelectSeq([i \in DOMAIN split |-> TrimEnd(split[i])], NonBlank)
        effectiveDelimiter == IF delimiter = <<>> THEN <<",">> ELSE delimiter
        headerIndex == MinWith(skipRows, Len(lines) - 1)
        headerCols == ParseDelimitedLine(lines[headerIndex + 1], effectiveDelimiter)
        headers == IF hasHeader
                   THEN [i \in DOMAIN headerCols |-> Trim(headerCols[i])]
                   ELSE [i \in DOMAIN headerCols |-> ColumnKey(i)]
        dataStart == IF hasHeader THEN headerIndex + 1 ELSE MinWith(skipRows, Len(lines))
    IN  IF Len(lines) = 0 THEN <<>>
        ELSE [k \in 1..(Len(lines) - dataStart) |->
                 DelimitedRecord(headers,
                     ParseDelimitedLine(lines[dataStart + k], effectiveDelimiter))]

(***************************************************************************)
(* parseJsonRecords (importUtils.ts:127).  JSON.parse is a table: the      *)
(* texts of the model that are JSON objects or arrays, with their values.  *)
(* Every other text throws; a text that is a JSON scalar yields no record  *)
(* on either path of parseJsonRecords, as a text that throws does.         *)
(***************************************************************************)
K_w == <<"w">>

\* [{"w":"a"}]
JsonText1 == <<"[", "{", "\"", "w", "\"", ":", "\"", "a", "\"", "}", "]">>
\* {"w":"b"}
JsonText2 == <<"{", "\"", "w", "\"", ":", "\"", "b", "\"", "}">>
\* [{"w":{"toString":1}}]
JsonText3 ==
    <<"[", "{", "\"", "w", "\"", ":", "{", "\"">> \o K_toString \o <<"\"", ":", "1", "}", "}", "]">>

\* [{"w":"a","m":"<ideograph>"}]
K_m == <<"m">>
JsonText4 ==
    <<"[", "{", "\"", "w", "\"", ":", "\"", "a", "\"", ",",
      "\"", "m", "\"", ":", "\"", "U+732B", "\"", "}", "]">>

\* {"w":"c"}
JsonText5 == <<"{", "\"", "w", "\"", ":", "\"", "c", "\"", "}">>

\* [{"w":"a"},{"w":{"toString":1}}]
JsonText6 ==
    <<"[", "{", "\"", "w", "\"", ":", "\"", "a", "\"", "}", ",",
      "{", "\"", "w", "\"", ":", "{", "\"">> \o K_toString \o <<"\"", ":", "1", "}", "}", "]">>

JsonDocuments ==
    {[text |-> JsonText6,
      value |-> JArr(<<JObj(Put(EmptyFields, K_w, JStr(<<"a">>))),
                       JObj(Put(EmptyFields, K_w,
                                JObj(Put(EmptyFields, K_toString, JNum(2)))))>>)],
     [text |-> JsonText5,
      value |-> JObj(Put(EmptyFields, K_w, JStr(<<"c">>)))],
     [text |-> JsonText4,
      value |-> JArr(<<JObj(Put(Put(EmptyFields, K_w, JStr(<<"a">>)),
                                K_m, JStr(<<"U+732B">>)))>>)],
     [text |-> JsonText1,
      value |-> JArr(<<JObj(Put(EmptyFields, K_w, JStr(<<"a">>)))>>)],
     [text |-> JsonText2,
      value |-> JObj(Put(EmptyFields, K_w, JStr(<<"b">>)))],
     [text |-> JsonText3,
      value |-> JArr(<<JObj(Put(EmptyFields, K_w,
                                JObj(Put(EmptyFields, K_toString, JNum(2)))))>>)]}

JsonParse(text) ==
    LET hits == {d \in JsonDocuments : d.text = Trim(text)}
    IN  IF hits = {} THEN [ok |-> FALSE, value |-> JUndefined]
        ELSE [ok |-> TRUE, value |-> (CHOOSE d \in hits : TRUE).value]

\* item && typeof item === 'object'
IsObjectLike(v) == KindOf(v) \in {"object", "array"}


\* the least element of a non-empty set of line numbers
FirstOfLines(S) == CHOOSE i \in S : \A j \in S : i <= j

\* variant: the first line that does not parse ends the recovery
JsonLinesUntilMalformed(rawData) ==
    LET split == SplitLines(rawData)
        lines == SelectSeq([i \in DOMAIN split |-> Trim(split[i])], NonEmpty)
        bad == {i \in DOMAIN lines : ~JsonParse(lines[i]).ok}
        kept == SelectSeq(SubSeq(lines, 1, IF bad = {} THEN Len(lines)
                                           ELSE FirstOfLines(bad) - 1),
                          LAMBDA line : IsObjectLike(JsonParse(line).value))
    IN  [i \in DOMAIN kept |-> JsonParse(kept[i]).value]

\* the catch branch: each non-blank line on its own
JsonLines(rawData) ==
    LET split == SplitLines(rawData)
        lines == SelectSeq([i \in DOMAIN split |-> Trim(split[i])], NonEmpty)
        ParsesToObject(line) == JsonParse(line).ok /\ IsObjectLike(JsonParse(line).value)
        kept == SelectSeq(lines, ParsesToObject)
    IN  [i \in DOMAIN kept |-> JsonParse(kept[i]).value]

ParseJsonRecords(rawData, recordPath) ==
    LET parsed == JsonParse(rawData)
        records == IF recordPath = UndefinedString \/ recordPath = <<>>
                   THEN parsed.value
                   ELSE GetValueByPath(parsed.value, recordPath)
    IN  IF ~parsed.ok THEN JsonLines(rawData)
        ELSE IF KindOf(records) = "array" THEN SelectSeq(records[2], IsObjectLike)
        ELSE IF KindOf(records) = "object" THEN <<records>>
        ELSE <<>>

(***************************************************************************)
(* extractTagsAndMeaning (importUtils.ts:169).                             *)
(***************************************************************************)
NoMeaning == [some |-> FALSE, value |-> <<>>]

IsTagSeparator(c) == c \in TagSeparators \/ IsWhitespace(c)

\* split(/[\/;,，、\s]+/): the pieces between separators (empty ones are
\* dropped by the filter(Boolean) that follows)
RECURSIVE SplitTagsFrom(_, _, _)
SplitTagsFrom(s, i, current) ==
    IF i > Len(s) THEN <<current>>
    ELSE IF IsTagSeparator(s[i]) THEN <<current>> \o SplitTagsFrom(s, i + 1, <<>>)
    ELSE SplitTagsFrom(s, i + 1, Append(current, s[i]))

TagList(cleanedTagSegment) ==
    LET pieces == SplitTagsFrom(cleanedTagSegment, 1, <<>>)
    IN  SelectSeq([i \in DOMAIN pieces |-> Trim(StripTrailingFullStops(pieces[i]))], NonEmpty)

ExtractTagsAndMeaning(raw) ==
    LET normalized == Trim(raw)
        cjkIndex == FirstCjkIndex(normalized)
        tagSegment == IF cjkIndex >= 0 THEN Trim(SliceTo(normalized, cjkIndex))
                      ELSE normalized
        meaningSegment == Trim(StripLeadingPunctuation(SliceFrom(normalized, cjkIndex)))
        cleanedTagSegment == Trim(StripTrailingFullStops(tagSegment))
        tags == TagList(cleanedTagSegment)
    IN  IF normalized = <<>> THEN [tags |-> NoTags, meaning |-> NoMeaning]
        ELSE [tags |-> IF cleanedTagSegment # <<>> /\ tags # <<>>
                       THEN [some |-> TRUE, list |-> tags] ELSE NoTags,
              meaning |-> IF cjkIndex >= 0 /\ meaningSegment # <<>>
                          THEN [some |-> TRUE, value |-> meaningSegment] ELSE NoMeaning]

(***************************************************************************)
(* The plan (SmartImportPlan of types.ts).  An optional string that is     *)
(* absent is UndefinedString, an absent hasHeader is "undefined", an       *)
(* absent number is JUndefined.                                            *)
(***************************************************************************)
F_csv == <<"c", "s", "v">>
F_tsv == <<"t", "s", "v">>
F_json == <<"j", "s", "o", "n">>
F_text == <<"t", "e", "x", "t">>
K_column1 == ColumnKey(1)

\* plan.hasHeader ?? true and plan.skipRows ?? 0
HasHeaderOrTrue(plan) == plan.hasHeader # "false"
SkipRowsOrZero(plan) == IF plan.skipRows = JUndefined THEN JNum(0) ELSE plan.skipRows

(***************************************************************************)
(* applySmartImportPlan (importUtils.ts:213): the text format.             *)
(***************************************************************************)
\* expandSegments (importUtils.ts:235)
ExpandSegments(segment) ==
    LET trimmed == Trim(segment)
        firstCjkIndex == FirstCjkIndex(trimmed)
        posPart == Trim(StripTrailingFullStops(SliceTo(trimmed, firstCjkIndex)))
        meaningPart == Trim(StripLeadingPunctuation(SliceFrom(trimmed, firstCjkIndex)))
        result == (IF posPart # <<>> THEN <<posPart>> ELSE <<>>)
                  \o (IF meaningPart # <<>> THEN <<meaningPart>> ELSE <<>>)
    IN  IF trimmed = <<>> THEN << <<>> >>
        ELSE IF firstCjkIndex > 0 /\ Len(result) > 0 THEN result
        ELSE <<trimmed>>

RECURSIVE ExpandAll(_)
ExpandAll(rawParts) ==
    IF rawParts = <<>> THEN <<>>
    ELSE ExpandSegments(Head(rawParts)) \o ExpandAll(Tail(rawParts))

RECURSIVE FillColumns(_, _, _)
FillColumns(fields, parts, partIdx) ==
    IF partIdx >= Len(parts) THEN fields
    ELSE FillColumns(Put(Put(fields, ColumnKey(partIdx + 1), JStr(parts[partIdx + 1])),
                         NatToString(partIdx), JStr(parts[partIdx + 1])),
                     parts, partIdx + 1)

TextRecord(line, idx, delimiter) ==
    LET rawParts == IF delimiter # <<>> THEN Split(line, delimiter) ELSE <<line>>
        expanded == ExpandAll(rawParts)
        expandedParts == IF Len(expanded) = 0 THEN <<Trim(line)>> ELSE expanded
    IN  JObj(Put(Put(FillColumns(EmptyFields, expandedParts, 0),
                     K_parts, StringArray(expandedParts)),
                 K_line, JNum(2 * (idx + 1))))

\* variant: a blank line gives a record as well
TextRecordsOfAllLines(rawData, plan) ==
    LET delimiter == IF plan.delimiter = UndefinedString \/ plan.delimiter = <<>>
                     THEN <<"\t">> ELSE plan.delimiter
        split == SplitLines(rawData)
    IN  [i \in DOMAIN split |-> TextRecord(Trim(split[i]), i - 1, delimiter)]

TextRecords(rawData, plan) ==
    LET delimiter == IF plan.delimiter = UndefinedString \/ plan.delimiter = <<>>
                     THEN <<"\t">> ELSE plan.delimiter
        split == SplitLines(rawData)
        lines == SelectSeq([i \in DOMAIN split |-> Trim(split[i])], NonEmpty)
    IN  [i \in DOMAIN lines |-> TextRecord(lines[i], i - 1, delimiter)]

\* the switch on plan.format
ExtractRecords(rawData, plan) ==
    IF plan.format = F_csv
    THEN BuildDelimitedRecords(rawData, <<",">>, HasHeaderOrTrue(plan), SkipRowsOrZero(plan))
    ELSE IF plan.format = F_tsv
    THEN BuildDelimitedRecords(rawData, <<"\t">>, HasHeaderOrTrue(plan), SkipRowsOrZero(plan))
    ELSE IF plan.format = F_text THEN TextRecords(rawData, plan)
    ELSE ParseJsonRecords(rawData, plan.recordPath)

(***************************************************************************)
(* applySmartImportPlan: one record to one word (importUtils.ts:298).      *)
(***************************************************************************)
\* ensureTag (importUtils.ts:310)
EnsureTag(tags, tagCandidate) ==
    LET normalizedTag == Trim(tagCandidate)
    IN  IF normalizedTag = <<>> THEN tags
        ELSE IF \E i \in DOMAIN tags.list : tags.list[i] = normalizedTag
        THEN [some |-> TRUE, list |-> tags.list]
        ELSE [some |-> TRUE, list |-> Append(tags.list, normalizedTag)]

RECURSIVE EnsureTags(_, _)
EnsureTags(tags, candidates) ==
    IF candidates = <<>> THEN tags
    ELSE EnsureTags(EnsureTag(tags, Head(candidates)), Tail(candidates))

\* Array.isArray(record.__parts) ? record.__parts : []
PartsArray(record) ==
    IF KindOf(record) = "object" /\ K_parts \in DOMAIN record[2]
       /\ KindOf(record[2][K_parts]) = "array"
    THEN record[2][K_parts][2]
    ELSE <<>>

\* a field of the record cannot be turned into a string
RecordThrows(record, fieldMap) ==
    \/ StringThrows(GetValueByPath(record, fieldMap.english))
    \/ StringThrows(GetValueByPath(record, fieldMap.chinese))
    \/ StringThrows(GetValueByPath(record, fieldMap.example))
    \/ StringThrows(GetValueByPath(record, fieldMap.tags))

\* step 1: a meaning found in the tags field fills an empty chinese
MeaningFromTags(chinese, tagsInfo) ==
    IF tagsInfo.meaning.some /\ chinese = <<>> THEN tagsInfo.meaning.value ELSE chinese

\* variant: a find that does not compare the part with english
FallbackPartsAnyCjk(partsArray, english) ==
    LET IsFallback(part) ==
            /\ KindOf(part) = "string"
            /\ ContainsCjk(part[2])
            /\ Len(Trim(part[2])) > 0
    IN  SelectSeq(partsArray, IsFallback)

\* partsArray.find(...) of step 2, as the list of all matches
FallbackParts(partsArray, english) ==
    LET IsFallback(part) ==
            /\ KindOf(part) = "string"
            /\ ContainsCjk(part[2])
            /\ Len(Trim(part[2])) > 0
            /\ Trim(part[2]) # english
    IN  SelectSeq(partsArray, IsFallback)

\* step 2: the first part with an ideograph becomes the meaning, and a meaning
\* without ideographs becomes a tag
WithFallback(chinese, tags, found) ==
    IF (chinese = <<>> \/ ~ContainsCjk(chinese)) /\ found # <<>>
    THEN [chinese |-> Trim(found[1][2]),
          tags |-> IF chinese # <<>> /\ ~ContainsCjk(chinese)
                   THEN EnsureTag(tags, chinese) ELSE tags]
    ELSE [chinese |-> chinese, tags |-> tags]

\* variant: a filter that does not compare the part with english
NonChinesePartsWithEnglish(partsArray, english) ==
    LET IsNonChinese(part) ==
            /\ KindOf(part) = "string"
            /\ ~ContainsCjk(part[2])
            /\ Len(Trim(part[2])) > 0
    IN  SelectSeq(partsArray, IsNonChinese)

\* partsArray.filter(...) of step 3
NonChineseParts(partsArray, english) ==
    LET IsNonChinese(part) ==
            /\ KindOf(part) = "string"
            /\ ~ContainsCjk(part[2])
            /\ Len(Trim(part[2])) > 0
            /\ Trim(part[2]) # english
    IN  SelectSeq(partsArray, IsNonChinese)

\* step 3: without tags, the other parts without ideographs become the tags
WithPartTags(tags, partsArray, nonChineseParts) ==
    IF (~tags.some \/ Len(tags.list) = 0) /\ Len(partsArray) > 1
    THEN EnsureTags(tags, [i \in DOMAIN nonChineseParts |-> nonChineseParts[i][2]])
    ELSE tags

\* the word literal (importUtils.ts:362), before its id is drawn; an example
\* that is absent is the empty string here
BuildWord(english, meaning, example, partsArray, index, sourceLabel, now) ==
    [id |-> NoId, english |-> english, chinese |-> meaning.chinese, example |-> example,
     tags |-> WithPartTags(meaning.tags, partsArray, NonChineseParts(partsArray, english)),
     isMastered |-> 0, createdAt |-> now + index, source |-> sourceLabel]

MapFields(english, chinese, example, tagsInfo, partsArray, index, sourceLabel, now) ==
    BuildWord(english,
              WithFallback(MeaningFromTags(chinese, tagsInfo), tagsInfo.tags,
                           FallbackParts(partsArray, english)),
              example, partsArray, index, sourceLabel, now)

\* the callback of records.map; a word with an empty english is dropped later
MapRecord(record, index, fieldMap, sourceLabel, now) ==
    MapFields(Trim(CoerceToString(GetValueByPath(record, fieldMap.english))),
              Trim(CoerceToString(GetValueByPath(record, fieldMap.chinese))),
              Trim(CoerceToString(GetValueByPath(record, fieldMap.example))),
              ExtractTagsAndMeaning(CoerceToString(GetValueByPath(record, fieldMap.tags))),
              PartsArray(record), index, sourceLabel, now)

\* crypto.randomUUID() for each word kept, in order
RECURSIVE DrawIds(_, _)
DrawIds(mapped, fresh) ==
    IF mapped = <<>> THEN <<>>
    ELSE <<[Head(mapped) EXCEPT !.id = fresh]>> \o DrawIds(Tail(mapped), fresh + 1)

HasEnglish(word) == word.english # <<>>

\* the position of the first record that throws, 0 when none does
FirstOf(throwing) ==
    IF throwing = {} THEN 0 ELSE CHOOSE i \in throwing : \A j \in throwing : i <= j

FirstThrowing(records, fieldMap) ==
    FirstOf({i \in DOMAIN records : RecordThrows(records[i], fieldMap)})

\* what the function returns, whether the catch branch returned it, and how
\* many identifiers were drawn
Returned(threw, kept) ==
    [threw |-> threw, words |-> IF threw THEN <<>> ELSE kept, drawn |-> Len(kept)]

\* records.map(...).filter(...): a record that throws ends the map, the
\* records before it have drawn their identifiers
MapRecords(records, fieldMap, firstThrowing, sourceLabel, now, fresh) ==
    Returned(firstThrowing # 0,
             DrawIds(SelectSeq([i \in 1..(IF firstThrowing = 0 THEN Len(records)
                                       ELSE firstThrowing - 1) |->
                                MapRecord(records[i], i - 1, fieldMap, sourceLabel, now)],
                            HasEnglish),
                     fresh))

ConvertRecords(records, fieldMap, sourceLabel, now, fresh) ==
    MapRecords(records, fieldMap, FirstThrowing(records, fieldMap), sourceLabel, now,
               fresh)

ApplySmartImportPlan(rawData, plan, sourceLabel, now, fresh) ==
    ConvertRecords(ExtractRecords(rawData, plan), plan.fieldMap, sourceLabel, now, fresh)

(***************************************************************************)
(* normalizeSmartImportPlan (aiService.ts:278) and its helpers.  The raw   *)
(* plan is any JavaScript value JSON.parse returns; the members of an      *)
(* object are named by TLA+ strings here (no code computes on the names).  *)
(***************************************************************************)
\* raw?.name
Member(raw, name) ==
    IF KindOf(raw) = "object" /\ name \in DOMAIN raw[2] THEN raw[2][name] ELSE JUndefined

\* coerceField (aiService.ts:214)
CoerceField(value) ==
    IF KindOf(value) = "string" /\ Len(Trim(value[2])) > 0 THEN Trim(value[2])
    ELSE UndefinedString

\* variant: the last candidate that holds a non-blank string
RECURSIVE PickLast(_)
PickLast(candidates) ==
    IF candidates = <<>> THEN UndefinedString
    ELSE IF CoerceField(candidates[Len(candidates)]) # UndefinedString
    THEN CoerceField(candidates[Len(candidates)])
    ELSE PickLast(SubSeq(candidates, 1, Len(candidates) - 1))

\* pickFirst (aiService.ts:221)
RECURSIVE PickFirst(_)
PickFirst(candidates) ==
    IF candidates = <<>> THEN UndefinedString
    ELSE IF CoerceField(Head(candidates)) # UndefinedString
    THEN CoerceField(Head(candidates))
    ELSE PickFirst(Tail(candidates))

EmptyFieldMap ==
    [english |-> UndefinedString, chinese |-> UndefinedString,
     example |-> UndefinedString, tags |-> UndefinedString]

\* normalizeFieldMap (aiService.ts:229)
NormalizeFieldMap(rawFieldMap) ==
    IF KindOf(rawFieldMap) \notin {"object", "array"} THEN EmptyFieldMap
    ELSE LET F(name) == Member(rawFieldMap, name)
         IN  [english |-> PickFirst(<<F("english"), F("English"), F("word"), F("Word"),
                                      F("column1"), F("Column1")>>),
              chinese |-> PickFirst(<<F("chinese"), F("Chinese"), F("meaning"),
                                      F("translation"), F("column2"), F("Column2")>>),
              example |-> PickFirst(<<F("example"), F("Example"), F("sentence"),
                                      F("Sentence"), F("column3"), F("Column3")>>),
              tags |-> PickFirst(<<F("tags"), F("Tags"), F("category"), F("Category")>>)]

\* Math.max(0, Math.floor(x)) for a number x
FloorClamp(x) ==
    IF x[2] = "infinite" THEN (IF x[3] > 0 THEN x ELSE JNum(0))
    ELSE IF x[3] <= 0 THEN JNum(0)
    ELSE JNum(2 * (x[3] \div 2))

AllowedFormats == {F_csv, F_tsv, F_json, F_text}

\* variant: only csv has a default delimiter
DefaultDelimiterOfCsv(format) ==
    IF format = F_csv THEN <<",">> ELSE UndefinedString

\* the delimiter given to a plan without one (aiService.ts:296-306)
DefaultDelimiter(format) ==
    IF format = F_csv THEN <<",">>
    ELSE IF format \in {F_tsv, F_text} THEN <<"\t">>
    ELSE UndefinedString

NormalizeSmartImportPlan(raw) ==
    LET rawFormat == Member(raw, "format")
        formatCandidate == IF KindOf(rawFormat) = "string" THEN ToLowerCase(rawFormat[2])
                           ELSE F_csv
        format == IF formatCandidate \in AllowedFormats THEN formatCandidate ELSE F_csv
        rawDelimiter == CoerceField(Member(raw, "delimiter"))
        rawHasHeader == Member(raw, "hasHeader")
        rawSkipRows == Member(raw, "skipRows")
        rawConfidence == Member(raw, "confidence")
        fieldMap == NormalizeFieldMap(Member(raw, "fieldMap"))
    IN  [format |-> format,
         delimiter |-> IF rawDelimiter # UndefinedString THEN rawDelimiter
                       ELSE DefaultDelimiter(format),
         hasHeader |-> IF KindOf(rawHasHeader) = "boolean"
                       THEN (IF rawHasHeader[2] THEN "true" ELSE "false")
                       ELSE "undefined",
         skipRows |-> IF KindOf(rawSkipRows) = "number" THEN FloorClamp(rawSkipRows)
                      ELSE JUndefined,
         recordPath |-> CoerceField(Member(raw, "recordPath")),
         fieldMap |-> [fieldMap EXCEPT !.english =
                          IF fieldMap.english = UndefinedString \/ fieldMap.english = <<>>
                          THEN K_column1 ELSE fieldMap.english],
         notes |-> CoerceField(Member(raw, "notes")),
         confidence |-> IF KindOf(rawConfidence) = "number" THEN rawConfidence
                        ELSE JUndefined]

(***************************************************************************)
(* mergeImportedWords (App.tsx:576).                                       *)
(***************************************************************************)
\* variant: a candidate key that is trimmed but keeps its casing
EnglishTrimmedOnly(word) == Trim(word.english)

\* the dedup key of a candidate: word.english.trim().toLowerCase()
EnglishNormalized(word) == ToLowerCase(Trim(word.english))

\* new Set(prev.map(item => item.id))
ExistingIds(prev) == {prev[i].id : i \in DOMAIN prev}

\* variant: the stored English values as they are, casing kept
ExistingEnglishExact(prev) == {prev[i].english : i \in DOMAIN prev}

\* new Set(prev.map(item => item.english.toLowerCase())): lower-cased, not trimmed
ExistingEnglish(prev) == {ToLowerCase(prev[i].english) : i \in DOMAIN prev}

\* the loop "for (const word of incoming)" with its two growing sets
RECURSIVE NovelLoop(_, _, _, _)
NovelLoop(incoming, existingIds, existingEnglish, novel) ==
    IF incoming = <<>> THEN novel
    ELSE LET word == Head(incoming)
             englishNormalized == EnglishNormalized(word)
         IN  IF englishNormalized = <<>>
             THEN NovelLoop(Tail(incoming), existingIds, existingEnglish, novel)
             ELSE IF word.id \in existingIds \/ englishNormalized \in existingEnglish
             THEN NovelLoop(Tail(incoming), existingIds, existingEnglish, novel)
             ELSE NovelLoop(Tail(incoming),
                            existingIds \cup {word.id},
                            existingEnglish \cup {englishNormalized},
                            Append(novel, word))

Novel(prev, incoming) ==
    NovelLoop(incoming, ExistingIds(prev), ExistingEnglish(prev), <<>>)

\* variant: the novel items after the stored ones
MergeAppended(prev, incoming) == prev \o Novel(prev, incoming)

\* the updater handed to setWords: prev when nothing is novel
MergeUpdater(prev, incoming) ==
    LET novel == Novel(prev, incoming)
    IN  IF Len(novel) = 0 THEN prev ELSE novel \o prev

(***************************************************************************)
(* The words state hook.  A queued update carries its candidate list, the  *)
(* value mergeImportedWords returned for it, and where it came from: the   *)
(* file input (op 0) or the operation of a Smart Import instance; left is  *)
(* TRUE when the user had left that operation before its merge.            *)
(***************************************************************************)
\* the other updaters given to setWords: of handleAddWord (App.tsx:421),
\* handleDelete (435), handleUpdate (439), handleToggleMastered (443), and the
\* list given by the initial load (162)
RunUpdater(prev, update) ==
    CASE update.updater = "add" -> <<update.word>> \o prev
      [] update.updater = "delete" ->
            LET Other(w) == w.id # update.id IN SelectSeq(prev, Other)
      [] update.updater = "update" ->
            [i \in DOMAIN prev |-> IF prev[i].id = update.word.id THEN update.word
                                   ELSE prev[i]]
      [] update.updater = "toggle" ->
            [i \in DOMAIN prev |->
                IF prev[i].id # update.id THEN prev[i]
                ELSE [prev[i] EXCEPT !.isMastered = IF @ = 1 THEN 0 ELSE 1]]
      [] update.updater = "set" -> update.value

ApplyUpdate(prev, update) ==
    IF "updater" \in DOMAIN update THEN RunUpdater(prev, update)
    ELSE MergeUpdater(prev, update.incoming)

\* variant: every updater starts from the rendered collection, so that only
\* the last one counts (a setter given a value instead of a function)
ApplyLastOnly(prev, updates) ==
    IF updates = <<>> THEN prev ELSE ApplyUpdate(prev, updates[Len(updates)])

\* a render runs every queued updater, each on the result of the one before
RECURSIVE ApplyQueue(_, _)
ApplyQueue(prev, updates) ==
    IF updates = <<>> THEN prev
    ELSE ApplyQueue(ApplyUpdate(prev, Head(updates)), Tail(updates))

\* React runs the updater during the setWords call only when the component
\* has no pending work; otherwise it runs at the next render
RunsEagerly == ~fiberLanes

\* the value of `inserted` when mergeImportedWords returns
Inserted(incoming) ==
    IF Len(incoming) = 0 THEN 0
    ELSE IF RunsEagerly THEN Len(Novel(words, incoming))
    ELSE 0

FromFile == [origin |-> "file", op |-> 0, left |-> FALSE]

\* setWords(updater): an eager updater that returns prev itself schedules nothing
Enqueued(incoming, from) ==
    IF Len(incoming) = 0 THEN queue
    ELSE IF RunsEagerly /\ Len(Novel(words, incoming)) = 0 THEN queue
    ELSE Append(queue, [incoming |-> incoming, inserted |-> Inserted(incoming),
                        from |-> from])

\* history of a call: its candidates, its return value, and the collection
\* its updater is applied to when nothing else intervenes
CallRecord(incoming, from) ==
    [some |-> TRUE, incoming |-> incoming, inserted |-> Inserted(incoming),
     prev |-> ApplyQueue(words, queue), from |-> from]

NoCall == [some |-> FALSE, incoming |-> <<>>, inserted |-> 0, prev |-> <<>>,
           from |-> FromFile]

\* notifyImportResult has shown no count yet
NoToast == -1

(***************************************************************************)
(* The Smart Import component (part_001:16).  Each time the page is opened *)
(* a new instance is mounted with the initial state of its hooks; when the *)
(* page is left the instance is unmounted and its state setters no longer  *)
(* show anything (its state is discarded), but a handler that is awaiting  *)
(* a reply keeps running.                                                  *)
(* running is the closure of that handler: the mode and the raw input it   *)
(* read when it started.  left and outcome are history: whether the user   *)
(* left the operation while it was awaiting, and how the last one ended.   *)
(***************************************************************************)
MaxInst == 2
MaxStarted == 2

NoCount == -1
NoPlan == [some |-> FALSE]
NoError == "null"
NoEssay == 0
Idle == [active |-> FALSE, mode |-> "words", rawInput |-> <<>>]

FreshInstance ==
    [rawInput |-> <<>>, mode |-> "words", isLoading |-> FALSE, plan |-> NoPlan,
     importCount |-> NoCount, errorMessage |-> NoError, essayResult |-> NoEssay,
     running |-> Idle, left |-> FALSE, outcome |-> "none"]

Instances == 1..MaxInst

\* the instance on screen
Mounted(i) == activePage = "smartImport" /\ created = i

\* the end of an operation of instance i: the history is kept in any case,
\* the state setters show something only while the instance is mounted
Finished(i, outcome, shown) ==
    LET ended == IF Mounted(i) THEN shown ELSE inst[i]
    IN  [inst EXCEPT ![i] = [ended EXCEPT !.running = Idle, !.left = FALSE,
                                          !.outcome = outcome]]

\* formatImportSource (importUtils.ts:3): the label of an import
ImportSource == "import"

\* Date.now() of the model
Now == 0

vars == <<words, queue, fiberLanes, lastRender, importToast, nextId, inbox, lastCall,
          activePage, created, started, inst, essays, essayStore, probe,
          localStorage, hasInitializedRef>>

importVars == <<activePage, created, started, inst, essays, essayStore, probe>>

storeVars == <<localStorage, hasInitializedRef>>

(***************************************************************************)
(* handleFileUpload (App.tsx:625): reader.onload with a file whose content *)
(* parsed to the list importedWords.                                       *)
(***************************************************************************)
HandleFileUpload ==
    /\ hasInitializedRef
    /\ inbox # <<>>
    /\ LET importedWords == Head(inbox)
           normalized == NormalizeAll(importedWords, nextId)
       IN  /\ queue' = Enqueued(normalized, FromFile)
           /\ importToast' = Inserted(normalized)
           /\ lastCall' = CallRecord(normalized, FromFile)
           /\ nextId' = nextId + MissingIds(importedWords)
    /\ fiberLanes' = TRUE
    /\ inbox' = Tail(inbox)
    /\ UNCHANGED <<words, lastRender>>
    /\ UNCHANGED importVars
    /\ UNCHANGED storeVars

\* React renders App: the queued updaters run in order and the result is
\* committed; the persistence effect of the commit (App.tsx:253) stores it
Render ==
    /\ fiberLanes
    /\ hasInitializedRef
    /\ words' = ApplyQueue(words, queue)
    /\ lastRender' = [prev |-> words, applied |-> queue]
    /\ queue' = <<>>
    /\ fiberLanes' = FALSE
    /\ localStorage' = words'
    /\ UNCHANGED <<importToast, nextId, inbox, lastCall, hasInitializedRef>>
    /\ UNCHANGED importVars

(***************************************************************************)
(* handleSelectPage (App.tsx:315): the page changes in the click's own     *)
(* synchronous render, which leaves the updates queued by replies pending. *)
(***************************************************************************)
OpenSmartImport ==
    /\ activePage # "smartImport"
    /\ created < MaxInst
    /\ activePage' = "smartImport"
    /\ created' = created + 1
    /\ inst' = [inst EXCEPT ![created + 1] = FreshInstance]
    /\ UNCHANGED <<words, queue, fiberLanes, lastRender, importToast, nextId, inbox,
                   lastCall, started, essays, essayStore, probe, storeVars>>

LeaveSmartImport ==
    /\ activePage = "smartImport"
    /\ activePage' = "vault"
    /\ inst' = [inst EXCEPT ![created] =
                   [FreshInstance EXCEPT !.running = inst[created].running,
                                         !.left = inst[created].running.active]]
    /\ UNCHANGED <<words, queue, fiberLanes, lastRender, importToast, nextId, inbox,
                   lastCall, created, started, essays, essayStore, probe, storeVars>>

(***************************************************************************)
(* The textarea and the mode select of the mounted instance                *)
(* (part_001:187, part_001:175) with the mode effect (part_001:26).        *)
(***************************************************************************)
SetRawInput(text) ==
    /\ activePage = "smartImport"
    /\ inst[created].rawInput # text
    /\ inst' = [inst EXCEPT ![created].rawInput = text]
    /\ UNCHANGED <<words, queue, fiberLanes, lastRender, importToast, nextId, inbox,
                   lastCall, activePage, created, started, essays, essayStore, probe, storeVars>>

SetMode(mode) ==
    /\ activePage = "smartImport"
    /\ inst[created].mode # mode
    /\ inst' = [inst EXCEPT ![created] =
                   [@ EXCEPT !.mode = mode, !.plan = NoPlan, !.importCount = NoCount,
                             !.errorMessage = NoError, !.essayResult = NoEssay,
                             !.left = @ \/ inst[created].running.active,
                             !.outcome = "none"]]
    /\ UNCHANGED <<words, queue, fiberLanes, lastRender, importToast, nextId, inbox,
                   lastCall, activePage, created, started, essays, essayStore, probe, storeVars>>

(***************************************************************************)
(* handleSmartImport (part_001:48), up to its await.                       *)
(***************************************************************************)
HandleSmartImport ==
    /\ activePage = "smartImport"
    /\ ~inst[created].isLoading
    /\ Trim(inst[created].rawInput) # <<>>
    /\ started < MaxStarted
    /\ started' = started + 1
    /\ inst' = [inst EXCEPT ![created] =
                   [@ EXCEPT !.isLoading = TRUE, !.errorMessage = NoError,
                             !.importCount = NoCount, !.plan = NoPlan,
                             !.essayResult = NoEssay,
                             !.running = [active |-> TRUE, mode |-> inst[created].mode,
                                          rawInput |-> inst[created].rawInput],
                             !.left = FALSE, !.outcome = "none"]]
    /\ UNCHANGED <<words, queue, fiberLanes, lastRender, importToast, nextId, inbox,
                   lastCall, activePage, created, essays, essayStore, probe, storeVars>>

(***************************************************************************)
(* handleSmartImport after the await of generateSmartImportPlan            *)
(* (part_001:62, aiService.ts:315).  The provider's reply is an input: the *)
(* value JSON.parse made of it, or a failure (the request failed, or the   *)
(* reply was no JSON).                                                     *)
(***************************************************************************)
PlanFailures == {"planRequestFailed", "planUnparseable"}

\* from "if (importedWords.length === 0)" on (part_001:68)
ReportWords(i, generatedPlan, result, from) ==
    /\ nextId' = nextId + result.drawn
    /\ IF Len(result.words) = 0
       THEN /\ inst' = Finished(i, IF result.threw THEN "conversionFailed" ELSE "noWords",
                                [inst[i] EXCEPT !.plan = [some |-> TRUE,
                                                          value |-> generatedPlan],
                                                !.importCount = 0, !.isLoading = FALSE])
            /\ UNCHANGED <<queue, fiberLanes, importToast, lastCall>>
       ELSE \* onImport: handleSmartImportMerge (App.tsx:619)
            /\ queue' = Enqueued(result.words, from)
            /\ importToast' = Inserted(result.words)
            /\ lastCall' = CallRecord(result.words, from)
            /\ fiberLanes' = TRUE
            /\ inst' = Finished(i, "merged",
                                [inst[i] EXCEPT !.plan = [some |-> TRUE,
                                                          value |-> generatedPlan],
                                                !.importCount = Inserted(result.words),
                                                !.isLoading = FALSE])

\* setPlan(generatedPlan) and the conversion (part_001:63-66)
ApplyGenerated(i, generatedPlan) ==
    ReportWords(i, generatedPlan,
                ApplySmartImportPlan(inst[i].running.rawInput, generatedPlan,
                                     ImportSource, Now, nextId),
                [origin |-> "smart", op |-> i, left |-> inst[i].left])

PlanResolves(i, raw) ==
    /\ inst[i].running.active
    /\ inst[i].running.mode = "words"
    /\ ApplyGenerated(i, NormalizeSmartImportPlan(raw))
    /\ UNCHANGED <<words, lastRender, inbox, activePage, created, started, essays,
                   essayStore, probe, storeVars>>

\* variant: a failure of the plan request reported as a count of zero
PlanRejectsAsZero(i, failure) ==
    /\ inst[i].running.active
    /\ inst[i].running.mode = "words"
    /\ inst' = Finished(i, failure, [inst[i] EXCEPT !.importCount = 0,
                                                    !.isLoading = FALSE])
    /\ UNCHANGED <<words, queue, fiberLanes, lastRender, importToast, nextId, inbox,
                   lastCall, activePage, created, started, essays, essayStore, probe, storeVars>>

\* variant: a catch branch without the finally branch
PlanRejectsStillLoading(i, failure) ==
    /\ inst[i].running.active
    /\ inst[i].running.mode = "words"
    /\ inst' = Finished(i, failure, [inst[i] EXCEPT !.errorMessage = "smartImportError"])
    /\ UNCHANGED <<words, queue, fiberLanes, lastRender, importToast, nextId, inbox,
                   lastCall, activePage, created, started, essays, essayStore, probe, storeVars>>

\* the catch and finally branches of handleSmartImport, mode 'words'
PlanRejects(i, failure) ==
    /\ inst[i].running.active
    /\ inst[i].running.mode = "words"
    /\ inst' = Finished(i, failure, [inst[i] EXCEPT !.errorMessage = "smartImportError",
                                                    !.isLoading = FALSE])
    /\ UNCHANGED <<words, queue, fiberLanes, lastRender, importToast, nextId, inbox,
                   lastCall, activePage, created, started, essays, essayStore, probe, storeVars>>

(***************************************************************************)
(* handleSmartImport after the await of buildEssayImportResult             *)
(* (part_001:78).  persistEssayRecord may fail without notice.             *)
(***************************************************************************)
EssayResolves(i, stored) ==
    /\ inst[i].running.active
    /\ inst[i].running.mode = "essay"
    /\ nextId' = nextId + 1
    /\ essayStore' = IF stored THEN <<nextId>> \o essayStore ELSE essayStore
    /\ essays' = <<nextId>> \o essays
    /\ fiberLanes' = TRUE
    /\ inst' = Finished(i, "essaySaved", [inst[i] EXCEPT !.essayResult = nextId,
                                                         !.isLoading = FALSE])
    /\ UNCHANGED <<words, queue, lastRender, importToast, inbox, lastCall, activePage,
                   created, started, probe, storeVars>>

EssayErrors == {"essayImportMissingContent", "essayImportError"}

EssayRejects(i, message) ==
    /\ inst[i].running.active
    /\ inst[i].running.mode = "essay"
    /\ inst' = Finished(i, "essayFailed", [inst[i] EXCEPT !.errorMessage = message,
                                                          !.isLoading = FALSE])
    /\ UNCHANGED <<words, queue, fiberLanes, lastRender, importToast, nextId, inbox,
                   lastCall, activePage, created, started, essays, essayStore, probe, storeVars>>

(***************************************************************************)
(* Spec: the application with its file input and its Smart Import page.    *)
(***************************************************************************)
NoProbe == [kind |-> "none"]

\* "A,<ideograph>": one line of two columns
RawLine == <<"A", ",", "U+732B">>
RawInputs == {RawLine, JsonText3}

\* replies of the provider, as JSON.parse returns them
S_JSON == <<"J", "S", "O", "N">>
ReplyJson == JObj([format |-> JStr(S_JSON), fieldMap |-> JObj([word |-> JStr(K_w)])])
ReplyCsv == JObj([format |-> JStr(F_csv), hasHeader |-> JBool(FALSE)])
PlanReplies == {ReplyJson, ReplyCsv}

\* the collection loaded from storage: empty, or one word with padded english
StoredCollections == {<<>>, <<WordItem(1, <<" ", "A", " ">>, "user")>>}

\* the file to upload: an export edited by hand (the id of the stored word on
\* another word) and a word without id
UploadedFile == <<WordItem(1, <<"b">>, "import"), WordItem(NoId, <<"a">>, "import")>>
Uploads == {<<UploadedFile>>}

InitApp ==
    /\ queue = <<>>
    /\ lastRender = [prev |-> words, applied |-> <<>>]
    /\ importToast = NoToast
    /\ nextId = MaxPrev + 2
    /\ lastCall = NoCall
    /\ activePage = "vault"
    /\ created = 0
    /\ started = 0
    /\ inst = [i \in Instances |-> FreshInstance]
    /\ essays = <<>>
    /\ essayStore = <<>>
    /\ localStorage = words
    /\ hasInitializedRef = TRUE

Init ==
    /\ words \in StoredCollections
    /\ fiberLanes = FALSE
    /\ inbox \in Uploads
    /\ probe = NoProbe
    /\ InitApp

Next ==
    \/ HandleFileUpload
    \/ Render
    \/ OpenSmartImport
    \/ LeaveSmartImport
    \/ \E text \in RawInputs : SetRawInput(text)
    \/ \E mode \in {"words", "essay"} : SetMode(mode)
    \/ HandleSmartImport
    \/ \E i \in Instances, raw \in PlanReplies : PlanResolves(i, raw)
    \/ \E i \in Instances, failure \in PlanFailures : PlanRejects(i, failure)
    \/ \E i \in Instances, stored \in BOOLEAN : EssayResolves(i, stored)
    \/ \E i \in Instances, message \in EssayErrors : EssayRejects(i, message)

Spec == Init /\ [][Next]_vars

(***************************************************************************)
(* SpecLive: the Smart Import page, with no request pending for ever.  The *)
(* continuation of handleSmartImport is runnable exactly while its         *)
(* operation is running, whether the request resolves or rejects, and a    *)
(* step of either kind ends the operation.  The weak fairness of the       *)
(* rejection therefore says that the request settles, one way or the       *)
(* other: a behaviour in which it resolves satisfies it as well.           *)
(***************************************************************************)
Settles(i) ==
    \/ \E raw \in PlanReplies : PlanResolves(i, raw)
    \/ \E failure \in PlanFailures : PlanRejects(i, failure)
    \/ \E stored \in BOOLEAN : EssayResolves(i, stored)
    \/ \E message \in EssayErrors : EssayRejects(i, message)

Rejects(i) ==
    \/ \E failure \in PlanFailures : PlanRejects(i, failure)
    \/ \E message \in EssayErrors : EssayRejects(i, message)

InitLive ==
    /\ words = <<>>
    /\ fiberLanes = FALSE
    /\ inbox = <<>>
    /\ probe = NoProbe
    /\ InitApp

NextLive ==
    \/ Render
    \/ OpenSmartImport
    \/ LeaveSmartImport
    \/ SetRawInput(RawLine)
    \/ \E mode \in {"words", "essay"} : SetMode(mode)
    \/ HandleSmartImport
    \/ \E i \in Instances : Settles(i)

SpecLive == InitLive /\ [][NextLive]_vars /\ \A i \in Instances : WF_vars(Rejects(i))

(***************************************************************************)
(* SpecMerge: one file upload into every small collection.                 *)
(***************************************************************************)
EnglishPool == {<<" ">>, <<"a">>, <<"A">>, <<" ", "A", " ">>, <<"b">>}

RECURSIVE SeqsUpTo(_, _)
SeqsUpTo(S, n) ==
    IF n = 0 THEN {<<>>}
    ELSE LET shorter == SeqsUpTo(S, n - 1)
         IN  shorter \cup {Append(s, x) : s \in {t \in shorter : Len(t) = n - 1}, x \in S}

\* collections whose items carry the distinct ids 1, 2, ...
Collections(n) ==
    {[i \in DOMAIN es |-> WordItem(i, es[i], "user")] : es \in SeqsUpTo(EnglishPool, n)}

\* items of a file: an id of the file (1, the id of the first stored word) or none
FileItems == {WordItem(id, e, "import") : id \in {NoId, 1}, e \in EnglishPool}

InitMerge ==
    /\ words \in Collections(MaxPrev)
    /\ fiberLanes \in BOOLEAN
    /\ inbox \in {<<f>> : f \in SeqsUpTo(FileItems, MaxIncoming)}
    /\ probe = NoProbe
    /\ InitApp

NextMerge == HandleFileUpload \/ Render

SpecMerge == InitMerge /\ [][NextMerge]_vars

(***************************************************************************)
(* SpecIdem: the same raw input converted by the same plan and merged,     *)
(* twice in sequence (part_001:65-74), each run after the render of the    *)
(* one before.  probe.before and probe.inserted record, run by run, the    *)
(* collection the run started from and the count onImport returned.        *)
(***************************************************************************)
MaxRuns == 2

\* "a<TAB>n. <ideograph>", then " A ,b": two lines
RawTwoLines ==
    <<"a", "\t", "n", ".", " ", "U+732B", "\n", " ", "A", " ", ",", "b">>
IdemInputs == {RawLine, RawTwoLines, JsonText1, JsonText2, JsonText3}

ReplyText == JObj([format |-> JStr(F_text)])
IdemPlans == {NormalizeSmartImportPlan(raw) : raw \in PlanReplies \cup {ReplyText, JNull}}

MergeRun(result, from) ==
    /\ nextId' = nextId + result.drawn
    /\ probe' = [probe EXCEPT !.before = Append(@, words),
                              !.inserted = Append(@, Inserted(result.words))]
    /\ IF Len(result.words) = 0
       THEN UNCHANGED <<queue, fiberLanes, importToast, lastCall>>
       ELSE /\ queue' = Enqueued(result.words, from)
            /\ importToast' = Inserted(result.words)
            /\ lastCall' = CallRecord(result.words, from)
            /\ fiberLanes' = TRUE

ApplyPlanThenMerge ==
    /\ probe.kind = "idem"
    /\ Len(probe.inserted) < MaxRuns
    /\ ~fiberLanes
    /\ MergeRun(ApplySmartImportPlan(probe.rawData, probe.plan, ImportSource, Now, nextId),
                [origin |-> "smart", op |-> Len(probe.inserted) + 1, left |-> FALSE])
    /\ UNCHANGED <<words, lastRender, inbox, activePage, created, started, inst, essays,
                   essayStore, storeVars>>

InitIdem ==
    /\ words \in Collections(MaxPrev)
    /\ fiberLanes = FALSE
    /\ inbox = <<>>
    /\ probe \in {[kind |-> "idem", rawData |-> r, plan |-> p, before |-> <<>>,
                   inserted |-> <<>>] : r \in IdemInputs, p \in IdemPlans}
    /\ InitApp

NextIdem == ApplyPlanThenMerge \/ Render

SpecIdem == InitIdem /\ [][NextIdem]_vars

(***************************************************************************)
(* SpecNorm: normalizeSmartImportPlan on the values a reply can parse to.  *)
(***************************************************************************)
Absent == [present |-> FALSE]
Present(v) == [present |-> TRUE, value |-> v]

\* an object with the members that are present
WithMember(fields, name, option) ==
    IF option.present THEN Put(fields, name, option.value) ELSE fields

FormatOptions ==
    {Absent, Present(JStr(F_csv)), Present(JStr(<<"T", "S", "V">>)),
     Present(JStr(<<"J", "s", "o", "n">>)), Present(JStr(F_text)),
     Present(JStr(<<"x", "m", "l">>)), Present(JStr(<<" ", "c", "s", "v">>)),
     Present(JNum(2)), Present(JNull)}

\* 0, 1.5, -2, 2, 1e999 (Infinity), -1e999, and the string "2"
SkipRowsOptions ==
    {Absent, Present(JNum(0)), Present(JNum(3)), Present(JNum(-4)), Present(JNum(4)),
     Present(JInf(1)), Present(JInf(-1)), Present(JStr(<<"2">>))}

FieldMapOptions ==
    {Absent, Present(JNull), Present(JStr(K_w)), Present(JObj(EmptyFields)),
     Present(JObj([english |-> JStr(K_w)])),
     Present(JObj([english |-> JStr(<<" ">>)])),
     Present(JObj([english |-> JStr(<<>>), Word |-> JStr(<<" ", "w", " ">>)])),
     Present(JObj([english |-> JNum(2), column1 |-> JStr(<<"c">>)])),
     Present(JArr(<<JStr(K_w)>>))}

HasHeaderOptions == {Absent, Present(JBool(FALSE)), Present(JStr(<<"t", "r", "u", "e">>))}

\* ";", a blank, a tab, and the number 1
DelimiterOptions ==
    {Absent, Present(JStr(<<";">>)), Present(JStr(<<" ">>)), Present(JStr(<<"\t">>)),
     Present(JNum(2))}

RawPlanObjects ==
    {JObj(WithMember(WithMember(WithMember(WithMember(WithMember(EmptyFields,
          "format", f), "skipRows", k), "fieldMap", m), "hasHeader", h),
          "delimiter", d)) :
        f \in FormatOptions, k \in SkipRowsOptions, m \in FieldMapOptions,
        h \in HasHeaderOptions, d \in DelimiterOptions}

RawPlans ==
    RawPlanObjects \cup {JNull, JStr(F_json), JNum(2), JBool(TRUE), JArr(<<>>)}

\* generateSmartImportPlan (aiService.ts:327): the parsed reply is normalized
NormalizeReply ==
    /\ probe.kind = "norm"
    /\ ~probe.plan.some
    /\ probe' = [probe EXCEPT !.plan = [some |-> TRUE,
                                        value |-> NormalizeSmartImportPlan(probe.raw)]]
    /\ UNCHANGED <<words, queue, fiberLanes, lastRender, importToast, nextId, inbox,
                   lastCall, activePage, created, started, inst, essays, essayStore, storeVars>>

InitNorm ==
    /\ words = <<>>
    /\ fiberLanes = FALSE
    /\ inbox = <<>>
    /\ probe \in {[kind |-> "norm", raw |-> r, plan |-> NoPlan] : r \in RawPlans}
    /\ InitApp

NextNorm == NormalizeReply

SpecNorm == InitNorm /\ [][NextNorm]_vars

(***************************************************************************)
(* Specifications of single functions.  The application is idle; probe     *)
(* holds the arguments of one call and, after the call, what it returned.  *)
(***************************************************************************)
idleVars == <<words, queue, fiberLanes, lastRender, importToast, inbox, lastCall,
              activePage, created, started, inst, essays, essayStore, localStorage,
              hasInitializedRef>>

InitIdle ==
    /\ words = <<>>
    /\ fiberLanes = FALSE
    /\ inbox = <<>>
    /\ InitApp

(***************************************************************************)
(* SpecApply: applySmartImportPlan (importUtils.ts:213) on a raw input and *)
(* a normalized plan.  probe.records is the value of the local `records`   *)
(* after the switch, probe.result what the function returned.              *)
(***************************************************************************)
\* "e,c,x" then "a,<ideograph>,s": a header and one line
RawHeaderAndLine ==
    <<"e", ",", "c", ",", "x", "\n", "a", ",", "U+732B", ",", "s">>
\* "a;<ideograph>"
RawSemicolon == <<"a", ";", "U+732B">>
\* "a<TAB>v.<TAB><ideograph>"
RawTabbed == <<"a", "\t", "v", ".", "\t", "U+8DD1">>

\* "a,n;n"
RawTagTwice == <<"a", ",", "n", ";", "n">>

\* "a", then ",x", then "b": the second line has an empty first token
RawGap == <<"a", "\n", ",", "x", "\n", "b">>

ApplyInputs ==
    {RawHeaderAndLine, RawSemicolon, RawTabbed, RawLine, RawTwoLines, JsonText1, JsonText4,
     JsonText6, RawTagTwice, RawGap}

ApplyFormats == {JStr(F_csv), JStr(F_tsv), JStr(F_text), JStr(F_json)}
ApplyDelimiters == {Absent, Present(JStr(<<";">>))}
ApplyHasHeader == {Absent, Present(JBool(FALSE))}
ApplyFieldMaps ==
    {Absent,
     Present(JObj([english |-> JStr(<<"e">>), chinese |-> JStr(<<"c">>),
                   example |-> JStr(<<"x">>)])),
     Present(JObj([english |-> JStr(ColumnKey(1)), chinese |-> JStr(ColumnKey(2))])),
     Present(JObj([english |-> JStr(K_w), chinese |-> JStr(K_m)])),
     Present(JObj([english |-> JStr(ColumnKey(1)), tags |-> JStr(ColumnKey(2))]))}

ApplyPlans ==
    {NormalizeSmartImportPlan(
         JObj(WithMember(WithMember(WithMember(Put(EmptyFields, "format", f),
              "delimiter", d), "hasHeader", h), "fieldMap", m))) :
        f \in ApplyFormats, d \in ApplyDelimiters, h \in ApplyHasHeader,
        m \in ApplyFieldMaps}

ApplyPlan ==
    /\ probe.kind = "apply"
    /\ ~probe.done
    /\ probe' = [probe EXCEPT
                    !.done = TRUE,
                    !.records = ExtractRecords(probe.rawData, probe.plan),
                    !.result = ApplySmartImportPlan(probe.rawData, probe.plan,
                                                    ImportSource, Now, nextId)]
    /\ nextId' = nextId + probe'.result.drawn
    /\ UNCHANGED idleVars

InitApply ==
    /\ probe \in {[kind |-> "apply", rawData |-> r, plan |-> p, done |-> FALSE,
                   records |-> <<>>, result |-> Returned(FALSE, <<>>)] :
                     r \in ApplyInputs, p \in ApplyPlans}
    /\ InitIdle

NextApply == ApplyPlan

SpecApply == InitApply /\ [][NextApply]_vars

(***************************************************************************)
(* SpecRepair: the callback of records.map (importUtils.ts:298) on one     *)
(* record of buildDelimitedRecords without header row.  probe.repaired is  *)
(* the value of the locals chinese and tags after step 2 (line 343),       *)
(* probe.split their value after step 1 (line 323),                        *)
(* probe.word the word literal of line 362.                                *)
(***************************************************************************)
MaxTokens == 3

\* columns of a line: with and without blanks around, with and without ideograph
TokenPool ==
    {<<>>, <<"a">>, <<" ", "a">>, <<"n", ".">>, <<" ", "n", ".">>, <<"U+732B">>,
     <<" ", "U+8DD1">>, <<"n", ".", ":", "U+8DD1">>}

RepairRecords ==
    {DelimitedRecord([i \in DOMAIN cols |-> ColumnKey(i)], cols) :
        cols \in SeqsUpTo(TokenPool, MaxTokens) \ {<<>>}}

RepairFieldMaps ==
    {[english |-> ColumnKey(1), chinese |-> c, example |-> UndefinedString, tags |-> t] :
        c \in {UndefinedString, ColumnKey(2)}, t \in {UndefinedString, ColumnKey(3)}}

\* chinese and tags when step 1 is over (importUtils.ts:304-323)
MeaningAfterStep1(chinese, tagsInfo) ==
    [chinese |-> MeaningFromTags(chinese, tagsInfo), tags |-> tagsInfo.tags]

SplitMeaning(record, fieldMap) ==
    MeaningAfterStep1(
        Trim(CoerceToString(GetValueByPath(record, fieldMap.chinese))),
        ExtractTagsAndMeaning(CoerceToString(GetValueByPath(record, fieldMap.tags))))

\* chinese and tags when step 2 is over (importUtils.ts:304-343)
MeaningAfterStep2(english, chinese, tagsInfo, partsArray) ==
    WithFallback(MeaningFromTags(chinese, tagsInfo), tagsInfo.tags,
                 FallbackParts(partsArray, english))

RepairedMeaning(record, fieldMap) ==
    MeaningAfterStep2(
        Trim(CoerceToString(GetValueByPath(record, fieldMap.english))),
        Trim(CoerceToString(GetValueByPath(record, fieldMap.chinese))),
        ExtractTagsAndMeaning(CoerceToString(GetValueByPath(record, fieldMap.tags))),
        PartsArray(record))

MapOneRecord ==
    /\ probe.kind = "repair"
    /\ ~probe.done
    /\ probe' = [probe EXCEPT
                    !.done = TRUE,
                    !.split = SplitMeaning(probe.record, probe.fieldMap),
                    !.repaired = RepairedMeaning(probe.record, probe.fieldMap),
                    !.word = MapRecord(probe.record, 0, probe.fieldMap, ImportSource, Now)]
    /\ UNCHANGED <<idleVars, nextId>>

InitRepair ==
    /\ probe \in {[kind |-> "repair", record |-> r, fieldMap |-> m, done |-> FALSE,
                   split |-> [chinese |-> <<>>, tags |-> NoTags],
                   repaired |-> [chinese |-> <<>>, tags |-> NoTags],
                   word |-> WordItem(NoId, <<>>, ImportSource)] :
                     r \in RepairRecords, m \in RepairFieldMaps}
    /\ InitIdle

NextRepair == MapOneRecord

SpecRepair == InitRepair /\ [][NextRepair]_vars

(***************************************************************************)
(* SpecPath: getValueByPath (importUtils.ts:92) on a parsed JSON value and *)
(* a path string.                                                          *)
(***************************************************************************)
MaxSegments == 2

K_n == <<"n">>
K_a == <<"a">>
K_o == <<"o">>
K_z == <<"z">>

\* {"w":"a","n":1,"a":["b",null],"o":{"w":"c"},"z":null}
PathRecord ==
    JObj(Put(Put(Put(Put(Put(EmptyFields,
        K_w, JStr(<<"a">>)),
        K_n, JNum(2)),
        K_a, JArr(<<JStr(<<"b">>), JNull>>)),
        K_o, JObj(Put(EmptyFields, K_w, JStr(<<"c">>)))),
        K_z, JNull))

PathInputs == {PathRecord, JArr(<<PathRecord>>), JStr(<<"a">>), JNull}

\* pieces between the dots of a path: keys, indexes, a key no record has, a
\* member of Object.prototype, a padded key, an empty piece
PathPieces ==
    {K_w, K_n, K_a, K_o, K_z, <<"0">>, <<"1">>, <<"2">>, <<"x">>, K_toString,
     <<" ", "w", " ">>, <<>>}

RECURSIVE JoinWithDots(_)
JoinWithDots(pieces) ==
    IF pieces = <<>> THEN <<>>
    ELSE IF Len(pieces) = 1 THEN pieces[1]
    ELSE pieces[1] \o <<".">> \o JoinWithDots(Tail(pieces))

PathStrings ==
    {UndefinedString} \cup {JoinWithDots(ps) : ps \in SeqsUpTo(PathPieces, MaxSegments)}

ResolvePath ==
    /\ probe.kind = "path"
    /\ ~probe.done
    /\ probe' = [probe EXCEPT !.done = TRUE,
                              !.value = GetValueByPath(probe.input, probe.path)]
    /\ UNCHANGED <<idleVars, nextId>>

InitPath ==
    /\ probe \in {[kind |-> "path", input |-> v, path |-> p, done |-> FALSE,
                   value |-> JUndefined] : v \in PathInputs, p \in PathStrings}
    /\ InitIdle

NextPath == ResolvePath

SpecPath == InitPath /\ [][NextPath]_vars

(***************************************************************************)
(* SpecTok: parseDelimitedLine (importUtils.ts:13) on a line and a         *)
(* delimiter.                                                              *)
(***************************************************************************)
MaxChars == 4

LineChars == {"\"", ",", ":", "a"}

\* "hello, ""world""" ,<ni><hao>   (the quotes are part of the line)
QuotedLine ==
    <<"\"", "h", "e", "l", "l", "o", ",", " ", "\"", "\"", "w", "o", "r", "l", "d",
      "\"", "\"", "\"", " ", ",", "U+4F60", "U+597D">>

TokLines == SeqsUpTo(LineChars, MaxChars) \cup {QuotedLine}
TokDelimiters == {<<",">>, <<":", ":">>}

TokenizeLine ==
    /\ probe.kind = "tok"
    /\ ~probe.done
    /\ probe' = [probe EXCEPT !.done = TRUE,
                              !.fields = ParseDelimitedLine(probe.text, probe.delimiter)]
    /\ UNCHANGED <<idleVars, nextId>>

InitTok ==
    /\ probe \in {[kind |-> "tok", text |-> l, delimiter |-> d, done |-> FALSE,
                   fields |-> <<>>] : l \in TokLines, d \in TokDelimiters}
    /\ InitIdle

NextTok == TokenizeLine

SpecTok == InitTok /\ [][NextTok]_vars

(***************************************************************************)
(* SpecJsonl: parseJsonRecords (importUtils.ts:127) without record path on *)
(* an input of several lines.  probe.lines are the lines the input was     *)
(* written from.                                                           *)
(***************************************************************************)
MaxLines == 3

\* {"w":   (the end is missing)
MalformedLine == <<"{", "\"", "w", "\"", ":">>

LinePool == {JsonText1, JsonText2, JsonText5, MalformedLine, <<" ">>}

RECURSIVE JoinLines(_)
JoinLines(lines) ==
    IF lines = <<>> THEN <<>>
    ELSE IF Len(lines) = 1 THEN lines[1]
    ELSE lines[1] \o <<"\n">> \o JoinLines(Tail(lines))

ExtractJson ==
    /\ probe.kind = "jsonl"
    /\ ~probe.done
    /\ probe' = [probe EXCEPT !.done = TRUE,
                              !.records = ParseJsonRecords(probe.rawData, UndefinedString)]
    /\ UNCHANGED <<idleVars, nextId>>

InitJsonl ==
    /\ probe \in {[kind |-> "jsonl", lines |-> ls, rawData |-> JoinLines(ls),
                   done |-> FALSE, records |-> <<>>] :
                     ls \in SeqsUpTo(LinePool, MaxLines)}
    /\ InitIdle

NextJsonl == ExtractJson

SpecJsonl == InitJsonl /\ [][NextJsonl]_vars

(***************************************************************************)
(* SpecDelim: buildDelimitedRecords (importUtils.ts:46) on a header line   *)
(* and one data line, split at ",".  probe.headers and probe.tokens are    *)
(* the names and the values the two lines were written from (a header      *)
(* line is not blank: a blank line is no line of the input).               *)
(***************************************************************************)
MaxHeaders == 2

\* header names: plain ones, the keys of a column and of an index, the
\* reserved key, the empty name
HeaderPool ==
    {<<"e">>, <<"c">>, ColumnKey(1), ColumnKey(2), <<"0">>, <<"1">>, K_parts, <<>>}

ValuePool == {<<"u">>, <<"v">>}

RECURSIVE JoinWithCommas(_)
JoinWithCommas(fields) ==
    IF fields = <<>> THEN <<>>
    ELSE IF Len(fields) = 1 THEN fields[1]
    ELSE fields[1] \o <<",">> \o JoinWithCommas(Tail(fields))

BuildRecords ==
    /\ probe.kind \in {"delim", "rows"}
    /\ ~probe.done
    /\ probe' = [probe EXCEPT !.done = TRUE,
                              !.records = BuildDelimitedRecords(probe.rawData, <<",">>,
                                              probe.hasHeader, probe.skipRows)]
    /\ UNCHANGED <<idleVars, nextId>>

InitDelim ==
    /\ probe \in {[kind |-> "delim", headers |-> hs, tokens |-> ts,
                   rawData |-> JoinWithCommas(hs) \o <<"\n">> \o JoinWithCommas(ts),
                   hasHeader |-> TRUE, skipRows |-> JNum(0),
                   done |-> FALSE, records |-> <<>>] :
                     hs \in SeqsUpTo(HeaderPool, MaxHeaders) \ {<<>>, <<<<>>>>},
                     ts \in SeqsUpTo(ValuePool, MaxHeaders) \ {<<>>}}
    /\ InitIdle

NextDelim == BuildRecords

SpecDelim == InitDelim /\ [][NextDelim]_vars

(***************************************************************************)
(* SpecExpand: expandSegments (importUtils.ts:235) on one piece of a line  *)
(* of the text format.  A piece is written from up to MaxPoints            *)
(* characters, one of them outside the basic plane (two UTF-16 units).     *)
(***************************************************************************)
MaxPoints == 4

PointPool ==
    {<<"n">>, <<".">>, <<" ">>, <<"U+732B">>, <<"U+3002">>,
     <<HighSurrogate, LowSurrogate>>}

RECURSIVE Concat(_)
Concat(pieces) == IF pieces = <<>> THEN <<>> ELSE Head(pieces) \o Concat(Tail(pieces))

Segments == {Concat(ps) : ps \in SeqsUpTo(PointPool, MaxPoints)}

ExpandToken ==
    /\ probe.kind = "expand"
    /\ ~probe.done
    /\ probe' = [probe EXCEPT !.done = TRUE, !.columns = ExpandSegments(probe.segment)]
    /\ UNCHANGED <<idleVars, nextId>>

InitExpand ==
    /\ probe \in {[kind |-> "expand", segment |-> s, done |-> FALSE, columns |-> <<>>] :
                     s \in Segments}
    /\ InitIdle

NextExpand == ExpandToken

SpecExpand == InitExpand /\ [][NextExpand]_vars

(***************************************************************************)
(* SpecFields: normalizeSmartImportPlan on replies that carry a fieldMap   *)
(* of up to MaxKeys members and nothing else.                              *)
(***************************************************************************)
MaxKeys == 2

\* the keys normalizeFieldMap reads (aiService.ts:236-268) and one it does not
FieldKeys ==
    {"english", "English", "word", "Word", "column1", "Column1",
     "chinese", "Chinese", "meaning", "translation", "column2", "Column2",
     "example", "Example", "sentence", "Sentence", "column3", "Column3",
     "tags", "Tags", "category", "Category", "other"}

\* values of a member: "u", " v ", a blank string, the number 1
FieldValues == {JStr(<<"u">>), JStr(<<" ", "v", " ">>), JStr(<<" ">>), JNum(2)}

RECURSIVE SetsUpTo(_, _)
SetsUpTo(S, n) ==
    IF n = 0 THEN {{}}
    ELSE LET smaller == SetsUpTo(S, n - 1)
         IN  smaller \cup {x \cup {k} : x \in smaller, k \in S}

RawFieldMaps == UNION {[keys -> FieldValues] : keys \in SetsUpTo(FieldKeys, MaxKeys)}

InitFields ==
    /\ probe \in {[kind |-> "norm", raw |-> JObj([fieldMap |-> JObj(m)]), plan |-> NoPlan] :
                     m \in RawFieldMaps}
    /\ InitIdle

NextFields == NormalizeReply

SpecFields == InitFields /\ [][NextFields]_vars

(***************************************************************************)
(* SpecRows: buildDelimitedRecords on up to MaxRows lines, some of them    *)
(* blank, with and without header row and with every skipRows a normalized *)
(* plan can carry.  probe.lines are the lines the input was written from.  *)
(***************************************************************************)
MaxRows == 3

\* "u", "v,w", an empty line, a line of one blank
RowPool == {<<"u">>, <<"v", ",", "w">>, <<>>, <<" ">>}

SkipRowsValues == {JNum(2 * s) : s \in 0..(MaxRows + 1)} \cup {JInf(1)}

InitRows ==
    /\ probe \in {[kind |-> "rows", lines |-> ls, rawData |-> JoinLines(ls),
                   hasHeader |-> h, skipRows |-> s, done |-> FALSE, records |-> <<>>] :
                     ls \in SeqsUpTo(RowPool, MaxRows), h \in BOOLEAN,
                     s \in SkipRowsValues}
    /\ InitIdle

NextRows == BuildRecords

SpecRows == InitRows /\ [][NextRows]_vars

(***************************************************************************)
(* SpecText: applySmartImportPlan with a text plan on up to MaxTextLines   *)
(* lines, some of them blank.  probe.lines are the lines the input was     *)
(* written from.                                                           *)
(***************************************************************************)
MaxTextLines == 3

\* "a", "a<TAB>n.<ideograph>", "a<TAB><TAB>b", "a;b", an empty line, a blank
TextLinePool ==
    {<<"a">>, <<"a", "\t", "n", ".", "U+732B">>, <<"a", "\t", "\t", "b">>,
     <<"a", ";", "b">>, <<>>, <<" ">>}

TextPlans ==
    {NormalizeSmartImportPlan(JObj(WithMember(Put(EmptyFields, "format", JStr(F_text)),
                                              "delimiter", d))) :
        d \in ApplyDelimiters}

InitText ==
    /\ probe \in {[kind |-> "apply", lines |-> ls, rawData |-> JoinLines(ls), plan |-> p,
                   done |-> FALSE, records |-> <<>>, result |-> Returned(FALSE, <<>>)] :
                     ls \in SeqsUpTo(TextLinePool, MaxTextLines), p \in TextPlans}
    /\ InitIdle

NextText == ApplyPlan

SpecText == InitText /\ [][NextText]_vars

(***************************************************************************)
(* SpecVault: the application from its start, with the vocabulary page.    *)
(* localStorage holds a list the application stored in an earlier session. *)
(* probe keeps the list stored before the start, the ids the user deleted  *)
(* and the number of operations of the user so far.                        *)
(***************************************************************************)
MaxOps == 3

\* what the user types into the English field of the add and edit forms
TypedEnglish == {<<"a">>, <<"b">>}

FirstId == MaxPrev + 2

vaultVars == <<importToast, inbox, lastCall, activePage, created, started, inst, essays,
               essayStore>>

\* the files to upload: none, or one file of one word without id
VaultUploads == {<<>>, <<<<WordItem(NoId, <<"a">>, "import")>>>>}

\* the ids the model can draw
VaultIds == 1..(FirstId + MaxOps + 1)

\* one more operation of the user
Counted == probe.ops < MaxOps

\* setWords(updater) of a handler: the updater returns a new array, so React
\* schedules a render whether or not it ran the updater eagerly
SetWords(update) ==
    /\ queue' = Append(queue, update)
    /\ fiberLanes' = TRUE

\* the first commit of App and its effects, in the order of their hooks: the
\* initial load (App.tsx:150) reads the stored list and gives it to setWords,
\* the persistence effect (App.tsx:253) stores the words of this render, the
\* initial state [] (App.tsx:96).  StrictMode runs the effects twice; the
\* second run of the load returns at once and the second store is the same.
Mount ==
    /\ ~hasInitializedRef
    /\ hasInitializedRef' = TRUE
    /\ queue' = <<[updater |-> "set", value |-> NormalizeAll(localStorage, nextId)]>>
    /\ nextId' = nextId + MissingIds(localStorage)
    /\ fiberLanes' = TRUE
    /\ localStorage' = words
    /\ UNCHANGED <<words, lastRender, probe>>
    /\ UNCHANGED vaultVars

\* the page is closed or loaded again: the state of App is gone, the storage stays
Reload ==
    /\ hasInitializedRef
    /\ Counted
    /\ hasInitializedRef' = FALSE
    /\ words' = <<>>
    /\ queue' = <<>>
    /\ fiberLanes' = FALSE
    /\ lastRender' = [prev |-> <<>>, applied |-> <<>>]
    /\ probe' = [probe EXCEPT !.ops = @ + 1]
    /\ UNCHANGED <<localStorage, nextId>>
    /\ UNCHANGED vaultVars

\* handleAddWord (App.tsx:407)
HandleAddWord(newEnglish) ==
    /\ hasInitializedRef
    /\ Counted
    /\ Trim(newEnglish) # <<>>
    /\ SetWords([updater |-> "add", word |-> WordItem(nextId, newEnglish, "user")])
    /\ nextId' = nextId + 1
    /\ probe' = [probe EXCEPT !.ops = @ + 1]
    /\ UNCHANGED <<words, lastRender, localStorage, hasInitializedRef>>
    /\ UNCHANGED vaultVars

\* handleDelete (App.tsx:434), from the card of a word on screen
HandleDelete(id) ==
    /\ hasInitializedRef
    /\ Counted
    /\ id \in ExistingIds(words)
    /\ SetWords([updater |-> "delete", id |-> id])
    /\ probe' = [probe EXCEPT !.deleted = @ \cup {id}, !.ops = @ + 1]
    /\ UNCHANGED <<words, lastRender, nextId, localStorage, hasInitializedRef>>
    /\ UNCHANGED vaultVars

\* handleUpdate (App.tsx:438) with the form of a card (WordList.tsx:30)
HandleUpdate(id, english) ==
    /\ hasInitializedRef
    /\ Counted
    /\ \E i \in DOMAIN words :
           /\ words[i].id = id
           /\ SetWords([updater |-> "update",
                        word |-> [words[i] EXCEPT !.english = english]])
    /\ probe' = [probe EXCEPT !.ops = @ + 1]
    /\ UNCHANGED <<words, lastRender, nextId, localStorage, hasInitializedRef>>
    /\ UNCHANGED vaultVars

\* handleToggleMastered (App.tsx:442) without nextValue
HandleToggleMastered(id) ==
    /\ hasInitializedRef
    /\ Counted
    /\ id \in ExistingIds(words)
    /\ SetWords([updater |-> "toggle", id |-> id])
    /\ probe' = [probe EXCEPT !.ops = @ + 1]
    /\ UNCHANGED <<words, lastRender, nextId, localStorage, hasInitializedRef>>
    /\ UNCHANGED vaultVars

InitVault ==
    /\ words = <<>>
    /\ queue = <<>>
    /\ fiberLanes = FALSE
    /\ lastRender = [prev |-> <<>>, applied |-> <<>>]
    /\ importToast = NoToast
    /\ nextId = FirstId
    /\ inbox \in VaultUploads
    /\ lastCall = NoCall
    /\ activePage = "vault"
    /\ created = 0
    /\ started = 0
    /\ inst = [i \in Instances |-> FreshInstance]
    /\ essays = <<>>
    /\ essayStore = <<>>
    /\ localStorage \in StoredCollections
    /\ hasInitializedRef = FALSE
    /\ probe = [kind |-> "vault", stored |-> localStorage, deleted |-> {}, ops |-> 0]

NextVault ==
    \/ Mount
    \/ Render
    \/ Reload
    \/ HandleFileUpload
    \/ \E newEnglish \in TypedEnglish : HandleAddWord(newEnglish)
    \/ \E id \in VaultIds : HandleDelete(id)
    \/ \E id \in VaultIds, english \in TypedEnglish : HandleUpdate(id, english)
    \/ \E id \in VaultIds : HandleToggleMastered(id)

SpecVault == InitVault /\ [][NextVault]_vars

(***************************************************************************)
(* Claims.                                                                 *)
(***************************************************************************)
\* the dedup key of the data model: the English value trimmed and lower-cased
DedupKey(item) == ToLowerCase(Trim(item.english))

NoSharedKey(ws) ==
    \A i, j \in DOMAIN ws : i # j => DedupKey(ws[i]) # DedupKey(ws[j])

\* the collection once every pending updater has run
Settled == ApplyQueue(words, queue)

\* the non-empty dedup keys of a list of items
KeysOf(ws) == {DedupKey(ws[i]) : i \in DOMAIN ws} \ {<<>>}

\* the number of items the k-th updater of a render added to the collection
AddedBy(prev, updates, k) ==
    Len(ApplyQueue(prev, SubSeq(updates, 1, k)))
    - Len(ApplyQueue(prev, SubSeq(updates, 1, k - 1)))

\* C1: after a merge no two items of the collection share a dedup key, whenever
\* no two items of the collection before the merge shared one.
C1_NoSharedKeyAfterMerge ==
    (Len(lastRender.applied) = 1 /\ NoSharedKey(lastRender.prev)) => NoSharedKey(words)

\* C2: the value mergeImportedWords returned for a call is the number of items
\* the updater of that call added to the collection, also when the updater ran
\* at a later render.
C2_ReturnsAddedCount ==
    \A k \in DOMAIN lastRender.applied :
        lastRender.applied[k].inserted
            = AddedBy(lastRender.prev, lastRender.applied, k)

\* C3, as claimed: after a render that applied the merges of the import
\* operations, the collection has an item for every non-empty dedup key of the
\* collection before and of every batch.
BatchKeys(updates) == UNION {KeysOf(updates[k].incoming) : k \in DOMAIN updates}

C3_EveryKeyKept ==
    (KeysOf(lastRender.prev) \cup BatchKeys(lastRender.applied)) \subseteq KeysOf(words)

\* the candidates of the batches of a render, in the order their updaters ran
RECURSIVE Candidates(_)
Candidates(updates) ==
    IF updates = <<>> THEN <<>>
    ELSE Head(updates).incoming \o Candidates(Tail(updates))

\* keys of the candidates whose id is new: not the id of an item of the
\* collection before, nor of a candidate before it
NewIdKeys(prev, cands) ==
    KeysOf([j \in DOMAIN cands |->
               IF /\ \A i \in DOMAIN prev : prev[i].id # cands[j].id
                  /\ \A l \in 1..(j - 1) : cands[l].id # cands[j].id
               THEN cands[j]
               ELSE [cands[j] EXCEPT !.english = <<>>]])

\* C3, amended: in every interleaving of the merges, the collection after the
\* render has an item for every non-empty dedup key of the collection before
\* and of every candidate whose id is new; no batch is lost.
C3_EveryNewIdKeyKept ==
    (KeysOf(lastRender.prev)
        \cup NewIdKeys(lastRender.prev, Candidates(lastRender.applied)))
    \subseteq KeysOf(words)

\* two merges of different origins ran in one render and both added an item
C3_Witness ==
    /\ Len(lastRender.applied) = 2
    /\ lastRender.applied[1].from.origin = "smart"
    /\ lastRender.applied[2].from.origin = "file"
    /\ AddedBy(lastRender.prev, lastRender.applied, 1) >= 1
    /\ AddedBy(lastRender.prev, lastRender.applied, 2) >= 1
    /\ queue = <<>>

\* C4: converting the same raw input with the same plan and merging, twice in
\* sequence: the first run returns the number of items it added, the second
\* returns 0 and leaves the collection as the first run left it.
C4_SecondRunInsertsNothing ==
    (Len(probe.inserted) = 2 /\ ~fiberLanes) =>
        /\ probe.inserted[2] = 0
        /\ words = probe.before[2]
        /\ probe.inserted[1] = Len(probe.before[2]) - Len(probe.before[1])

C4_Witness ==
    /\ Len(probe.inserted) = 2
    /\ ~fiberLanes
    /\ probe.inserted[1] = 2
    /\ Len(probe.before[1]) = 1
    /\ Len(words) = 3

C6_LeftOperationMergesNothing ==
    \A k \in DOMAIN lastRender.applied :
        lastRender.applied[k].from.left =>
            AddedBy(lastRender.prev, lastRender.applied, k) = 0

\* C7: the merged collection is a block of candidates, in the order of the
\* candidate list, followed by the pre-existing items, unchanged and in their order.
IsOrderedSelection(block, incoming) ==
    \E f \in [DOMAIN block -> DOMAIN incoming] :
        /\ \A k \in DOMAIN block : block[k] = incoming[f[k]]
        /\ \A k, l \in DOMAIN block : k < l => f[k] < f[l]

C7_NovelBlockThenExisting ==
    Len(lastRender.applied) = 1 =>
        LET prev == lastRender.prev
            k == Len(words) - Len(prev)
        IN  /\ k >= 0
            /\ SubSeq(words, k + 1, Len(words)) = prev
            /\ IsOrderedSelection(SubSeq(words, 1, k), lastRender.applied[1].incoming)

C7_Witness ==
    /\ Len(lastRender.applied) = 1
    /\ Len(lastRender.prev) = 2
    /\ Len(words) = 4
    /\ words[1] = lastRender.applied[1].incoming[1]
    /\ words[2] = lastRender.applied[1].incoming[2]

\* C8: a candidate whose key is the lower-cased English of a stored item that has
\* no surrounding whitespace inserts nothing; when every candidate is such, the
\* call returns 0 and the collection stays as it was.
CoveredKeys(prev) ==
    {ToLowerCase(prev[i].english) : i \in {j \in DOMAIN prev :
        prev[j].english # <<>> /\ Trim(prev[j].english) = prev[j].english}}

CountKeyed(ws, keys) == Cardinality({i \in DOMAIN ws : DedupKey(ws[i]) \in keys})

AllCovered(call) ==
    /\ call.some
    /\ call.incoming # <<>>
    /\ \A i \in DOMAIN call.incoming :
          DedupKey(call.incoming[i]) \in CoveredKeys(call.prev)

C8_CasingVariantInsertsNothing ==
    lastCall.some =>
        /\ CountKeyed(Settled, CoveredKeys(lastCall.prev))
             = CountKeyed(lastCall.prev, CoveredKeys(lastCall.prev))
        /\ AllCovered(lastCall) =>
              (lastCall.inserted = 0 /\ importToast = 0 /\ Settled = lastCall.prev)

C8_Witness ==
    /\ AllCovered(lastCall)
    /\ Len(lastCall.incoming) = 2
    /\ lastCall.incoming[1].english # lastCall.incoming[2].english
    /\ \E i \in DOMAIN lastCall.prev :
          /\ lastCall.prev[i].english # lastCall.incoming[1].english
          /\ ToLowerCase(lastCall.prev[i].english) = DedupKey(lastCall.incoming[1])
    /\ inbox = <<>>
    /\ ~fiberLanes

\* C9: an instance on screen whose last word import has finished shows either
\* a count and no error, or an error and no count; an import whose plan or whose
\* conversion failed shows the error.
C9_CountOrFailure ==
    \A i \in Instances :
        (/\ activePage = "smartImport" /\ created = i
         /\ ~inst[i].running.active
         /\ inst[i].outcome \in PlanFailures \cup {"conversionFailed", "noWords", "merged"})
        =>
            /\ (inst[i].importCount # NoCount) # (inst[i].errorMessage # NoError)
            /\ inst[i].outcome \in PlanFailures \cup {"conversionFailed"} =>
                  (inst[i].importCount = NoCount /\ inst[i].errorMessage # NoError)

\* C10: the plan normalizeSmartImportPlan returns has a format of the enum (the
\* lower-cased format of the reply when that is one of the four, csv otherwise),
\* a skipRows that is absent or a non-negative integer, and a non-empty
\* fieldMap.english.
IsNonNegativeInteger(v) ==
    /\ KindOf(v) = "number"
    /\ v[2] = "finite"
    /\ v[3] >= 0
    /\ v[3] % 2 = 0

FormatEnum ==
    {<<"c", "s", "v">>, <<"t", "s", "v">>, <<"j", "s", "o", "n">>, <<"t", "e", "x", "t">>}

ExpectedFormat(raw) ==
    IF /\ KindOf(raw) = "object"
       /\ "format" \in DOMAIN raw[2]
       /\ KindOf(raw[2]["format"]) = "string"
       /\ ToLowerCase(raw[2]["format"][2]) \in FormatEnum
    THEN ToLowerCase(raw[2]["format"][2])
    ELSE <<"c", "s", "v">>

C10_NormalizedPlanIsValid ==
    (probe.kind = "norm" /\ probe.plan.some) =>
        LET plan == probe.plan.value
        IN  /\ plan.format = ExpectedFormat(probe.raw)
            /\ plan.skipRows # JUndefined => IsNonNegativeInteger(plan.skipRows)
            /\ plan.fieldMap.english # UndefinedString
            /\ Len(plan.fieldMap.english) > 0

\* the string a field of the map resolves to (importUtils.ts:299-306)
Resolved(record, path) == Trim(CoerceToString(GetValueByPath(record, path)))

\* the records that yield a word, in order
KeptRecords(records, fieldMap) ==
    LET Yields(record) == Resolved(record, fieldMap.english) # <<>>
    IN  SelectSeq(records, Yields)

\* the tags obtained from the resolved tags field alone
ResolvedTags(record, fieldMap) ==
    ExtractTagsAndMeaning(CoerceToString(GetValueByPath(record, fieldMap.tags))).tags

NoRepair(word, record, fieldMap) ==
    ContainsCjk(Resolved(record, fieldMap.chinese)) =>
        /\ word.chinese = Resolved(record, fieldMap.chinese)
        /\ word.tags = ResolvedTags(record, fieldMap)

AllUnrepaired(ws, kept, fieldMap) ==
    /\ Len(ws) = Len(kept)
    /\ \A k \in DOMAIN ws : NoRepair(ws[k], kept[k], fieldMap)

\* C11: a word whose chinese field resolves to a value with a CJK character
\* keeps that value as its chinese, and its tags are exactly the tags of the
\* resolved tags field (none when the plan maps no tags field), whatever the
\* format of the record.
C11_NoRepairWhenChineseResolved ==
    (probe.kind = "apply" /\ probe.done /\ ~probe.result.threw) =>
        AllUnrepaired(probe.result.words,
                      KeptRecords(probe.records, probe.plan.fieldMap),
                      probe.plan.fieldMap)

\* the raw tokens of a record, in order
RawTokens(record) ==
    LET parts == PartsArray(record)
    IN  [i \in DOMAIN parts |-> parts[i][2]]

\* chinese and the tag list when step 1 is over
AfterStep1(record, fieldMap) ==
    LET info == ExtractTagsAndMeaning(CoerceToString(GetValueByPath(record, fieldMap.tags)))
        chinese == Resolved(record, fieldMap.chinese)
    IN  [chinese |-> IF chinese = <<>> /\ info.meaning.some THEN info.meaning.value
                     ELSE chinese,
         tags |-> info.tags.list]

AppendUnlessPresent(list, x) ==
    IF \E i \in DOMAIN list : list[i] = x THEN list ELSE Append(list, x)

\* step 2 as the claim words it: the token itself is compared and promoted
Step2Literal(before, tokens, english) ==
    LET IsCandidate(t) == ContainsCjk(t) /\ Trim(t) # <<>> /\ t # english
        found == SelectSeq(tokens, IsCandidate)
    IN  IF (before.chinese = <<>> \/ ~ContainsCjk(before.chinese)) /\ found # <<>>
        THEN [chinese |-> found[1],
              tags |-> IF before.chinese # <<>>
                       THEN AppendUnlessPresent(before.tags, before.chinese)
                       ELSE before.tags]
        ELSE before

\* step 2 with the token taken without the blanks around it
Step2Trimmed(before, tokens, english) ==
    LET IsCandidate(t) == ContainsCjk(t) /\ Trim(t) # <<>> /\ Trim(t) # english
        found == SelectSeq(tokens, IsCandidate)
    IN  IF (before.chinese = <<>> \/ ~ContainsCjk(before.chinese)) /\ found # <<>>
        THEN [chinese |-> Trim(found[1]),
              tags |-> IF before.chinese # <<>>
                       THEN AppendUnlessPresent(before.tags, before.chinese)
                       ELSE before.tags]
        ELSE before

SameMeaning(repaired, expected) ==
    /\ repaired.chinese = expected.chinese
    /\ repaired.tags.list = expected.tags

\* C12 as claimed: after step 2, chinese is the first raw token that has a CJK
\* character, is not blank and differs from english, when chinese was empty or
\* without CJK character after step 1 and such a token exists; the former
\* non-empty chinese is then appended to the tags unless present; otherwise
\* chinese and tags are those of step 1.
C12_PromotesFirstCjkToken ==
    (probe.kind = "repair" /\ probe.done) =>
        SameMeaning(probe.repaired,
                    Step2Literal(AfterStep1(probe.record, probe.fieldMap),
                                 RawTokens(probe.record),
                                 Resolved(probe.record, probe.fieldMap.english)))

\* C12 amended: the same, the token being compared with english and promoted
\* without its leading and trailing whitespace.
C12_PromotesFirstCjkTokenTrimmed ==
    (probe.kind = "repair" /\ probe.done) =>
        /\ SameMeaning(probe.repaired,
                       Step2Trimmed(AfterStep1(probe.record, probe.fieldMap),
                                    RawTokens(probe.record),
                                    Resolved(probe.record, probe.fieldMap.english)))
        /\ probe.word.chinese = probe.repaired.chinese

\* a chinese without ideograph ("n.") was replaced by the third token, which
\* is written with a blank in front, and became a tag
C12_Witness ==
    /\ probe.kind = "repair"
    /\ probe.done
    /\ RawTokens(probe.record) = <<<<"a">>, <<"n", ".">>, <<" ", "U+8DD1">>>>
    /\ probe.fieldMap.chinese = ColumnKey(2)
    /\ probe.repaired.chinese = <<"U+8DD1">>
    /\ probe.repaired.tags.list = <<<<"n", ".">>>>

RECURSIVE WithoutDuplicates(_, _)
WithoutDuplicates(list, seen) ==
    IF list = <<>> THEN seen
    ELSE WithoutDuplicates(Tail(list), AppendUnlessPresent(seen, Head(list)))

\* step 3 as the claim words it: the tokens themselves are compared and kept
Step3Literal(tags, tokens, english) ==
    LET IsTag(t) == ~ContainsCjk(t) /\ Trim(t) # <<>> /\ t # english
    IN  IF tags = <<>> /\ Len(tokens) > 1
        THEN WithoutDuplicates(SelectSeq(tokens, IsTag), <<>>)
        ELSE tags

\* step 3 with the tokens taken without the blanks around them
Step3Trimmed(tags, tokens, english) ==
    LET IsTag(t) == ~ContainsCjk(t) /\ t # <<>> /\ t # english
    IN  IF tags = <<>> /\ Len(tokens) > 1
        THEN WithoutDuplicates(
                 SelectSeq([i \in DOMAIN tokens |-> Trim(tokens[i])], IsTag), <<>>)
        ELSE tags

\* C13 as claimed: when the tag list is empty after step 2 and the record has
\* more than one raw token, the tags of the word are the raw tokens without CJK
\* character that are not blank and differ from english, in token order and
\* without duplicates; otherwise the tags of the word are those of step 2.
C13_TagsFromOtherTokens ==
    (probe.kind = "repair" /\ probe.done) =>
        probe.word.tags.list =
            Step3Literal(probe.repaired.tags.list, RawTokens(probe.record),
                         Resolved(probe.record, probe.fieldMap.english))

\* C13 amended: the same, each token being compared with english, tested for
\* duplicates and kept without its leading and trailing whitespace.
C13_TagsFromOtherTokensTrimmed ==
    (probe.kind = "repair" /\ probe.done) =>
        probe.word.tags.list =
            Step3Trimmed(probe.repaired.tags.list, RawTokens(probe.record),
                         Resolved(probe.record, probe.fieldMap.english))

\* three tokens, the last two the same tag written with and without a blank in
\* front: step 3 made one tag of them
C13_Witness ==
    /\ probe.kind = "repair"
    /\ probe.done
    /\ RawTokens(probe.record) = <<<<"a">>, <<" ", "n", ".">>, <<"n", ".">>>>
    /\ probe.repaired.tags.list = <<>>
    /\ probe.word.tags = [some |-> TRUE, list |-> <<<<"n", ".">>>>]

\* the location a list of path segments addresses in a value: own keys of
\* objects and in-range decimal indexes of arrays; none otherwise
RECURSIVE Addressed(_, _)
Addressed(value, segments) ==
    IF segments = <<>> THEN [found |-> TRUE, value |-> value]
    ELSE IF KindOf(value) = "object" /\ Head(segments) \in DOMAIN value[2]
    THEN Addressed(value[2][Head(segments)], Tail(segments))
    ELSE IF /\ KindOf(value) = "array"
            /\ Head(segments) # <<>>
            /\ \A i \in DOMAIN Head(segments) : IsDigit(Head(segments)[i])
            /\ DecimalValue(Head(segments)) < Len(value[2])
    THEN Addressed(value[2][DecimalValue(Head(segments)) + 1], Tail(segments))
    ELSE [found |-> FALSE, value |-> JUndefined]

\* the segments of a path: its non-blank pieces between dots, trimmed
SegmentsOf(path) ==
    LET pieces == Split(path, <<".">>)
    IN  SelectSeq([i \in DOMAIN pieces |-> Trim(pieces[i])], NonEmpty)

YieldsAddressedString(result, path, location) ==
    /\ KindOf(result) = "string"
    /\ (path = UndefinedString \/ path = <<>> \/ ~location.found) => result = JStr(<<>>)
    /\ (location.found /\ KindOf(location.value) = "string" /\ path # UndefinedString
        /\ path # <<>>) => result = location.value

\* C14: getValueByPath yields a string: the empty string when the path is
\* undefined or empty or addresses nothing (missing key, bad index, traversal
\* through null or a primitive), and the string at the addressed location when
\* there is one.
C14_PathYieldsString ==
    (probe.kind = "path" /\ probe.done) =>
        YieldsAddressedString(probe.value, probe.path,
            Addressed(probe.input,
                      IF probe.path = UndefinedString THEN <<>> ELSE SegmentsOf(probe.path)))

\* the fields of a line by the three rules: a doubled quote in quote mode is
\* one quote, another quote switches the mode and is dropped, a delimiter
\* outside quote mode ends the field
RECURSIVE QuoteAwareFields(_, _, _, _)
QuoteAwareFields(rest, delimiter, quoted, field) ==
    IF rest = <<>> THEN <<field>>
    ELSE IF quoted /\ Len(rest) >= 2 /\ rest[1] = "\"" /\ rest[2] = "\""
    THEN QuoteAwareFields(SubSeq(rest, 3, Len(rest)), delimiter, TRUE,
                          Append(field, "\""))
    ELSE IF rest[1] = "\""
    THEN QuoteAwareFields(Tail(rest), delimiter, ~quoted, field)
    ELSE IF ~quoted /\ Len(rest) >= Len(delimiter)
            /\ SubSeq(rest, 1, Len(delimiter)) = delimiter
    THEN <<field>> \o QuoteAwareFields(SubSeq(rest, Len(delimiter) + 1, Len(rest)),
                                       delimiter, FALSE, <<>>)
    ELSE QuoteAwareFields(Tail(rest), delimiter, quoted, Append(field, rest[1]))

\* hello, "world"
HelloWorld ==
    <<"h", "e", "l", "l", "o", ",", " ", "\"", "w", "o", "r", "l", "d", "\"">>

FollowsQuoteRules ==
    (probe.kind = "tok" /\ probe.done) =>
        probe.fields = QuoteAwareFields(probe.text, probe.delimiter, FALSE, <<>>)

\* C15 as claimed: the fields follow the three quote rules, and the quoted line
\* of Scenario E split at "," has the first field hello, "world" exactly and
\* the second field of the two ideographs.
C15_QuoteAwareFields ==
    /\ FollowsQuoteRules
    /\ (probe.kind = "tok" /\ probe.done /\ probe.text = QuotedLine
        /\ probe.delimiter = <<",">>) =>
            probe.fields = <<HelloWorld, <<"U+4F60", "U+597D">>>>

\* C15 amended: the same, the first field of Scenario E ending with the blank
\* that stands between the closing quote and the delimiter.
C15_QuoteAwareFieldsKeepBlank ==
    /\ FollowsQuoteRules
    /\ (probe.kind = "tok" /\ probe.done /\ probe.text = QuotedLine
        /\ probe.delimiter = <<",">>) =>
            probe.fields = <<HelloWorld \o <<" ">>, <<"U+4F60", "U+597D">>>>

\* the line of Scenario E has been split at ","
C15_Witness ==
    /\ probe.kind = "tok"
    /\ probe.done
    /\ probe.text = QuotedLine
    /\ probe.delimiter = <<",">>
    /\ Len(probe.fields) = 2
    /\ probe.fields[2] = <<"U+4F60", "U+597D">>

\* the values of the lines that parse to an object or an array, in order
RECURSIVE ObjectsOfLines(_)
ObjectsOfLines(lines) ==
    IF lines = <<>> THEN <<>>
    ELSE (IF JsonParse(Head(lines)).ok /\ KindOf(JsonParse(Head(lines)).value)
                                             \in {"object", "array"}
          THEN <<JsonParse(Head(lines)).value>> ELSE <<>>)
         \o ObjectsOfLines(Tail(lines))

\* C16: when the input as a whole is not JSON, the records are the values of
\* the lines that parse to an object, one per line and in input order; a line
\* that does not parse is dropped and the lines after it are still read.
C16_JsonLinesRecovered ==
    (probe.kind = "jsonl" /\ probe.done /\ ~JsonParse(probe.rawData).ok) =>
        probe.records = ObjectsOfLines(probe.lines)

\* two object lines and a malformed last line gave the two records
C16_Witness ==
    /\ probe.kind = "jsonl"
    /\ probe.done
    /\ probe.lines = <<JsonText2, JsonText5, MalformedLine>>
    /\ ~JsonParse(probe.rawData).ok
    /\ Len(probe.records) = 2
    /\ probe.records[1] # probe.records[2]

\* the raw plan carries no usable delimiter: none, not a string, or a blank one
HasNoDelimiter(raw) ==
    \/ KindOf(raw) # "object"
    \/ "delimiter" \notin DOMAIN raw[2]
    \/ KindOf(raw[2]["delimiter"]) # "string"
    \/ \A i \in DOMAIN raw[2]["delimiter"][2] :
          raw[2]["delimiter"][2][i] \in {" ", "\t", "\n", "\r"}

\* the raw plan is absent or garbage: not an object, or an object without members
IsGarbagePlan(raw) == KindOf(raw) # "object" \/ DOMAIN raw[2] = {}

DelimiterByFormat(plan) ==
    /\ plan.format = <<"c", "s", "v">> => plan.delimiter = <<",">>
    /\ plan.format = <<"t", "s", "v">> => plan.delimiter = <<"\t">>
    /\ plan.format = <<"t", "e", "x", "t">> => plan.delimiter = <<"\t">>
    /\ plan.format = <<"j", "s", "o", "n">> => plan.delimiter = UndefinedString

ConservativeDefault(plan) ==
    /\ plan.format = <<"c", "s", "v">>
    /\ plan.delimiter = <<",">>
    /\ HasHeaderOrTrue(plan)
    /\ plan.fieldMap.english = <<"c", "o", "l", "u", "m", "n", "1">>

\* C17: a raw plan without delimiter is normalized to the delimiter of its
\* format ("," for csv, tab for tsv and text, none for json), and an absent or
\* garbage plan to csv with ",", a header row assumed when the plan is applied
\* and english read from column1.
C17_NormalizationDefaults ==
    (probe.kind = "norm" /\ probe.plan.some) =>
        /\ HasNoDelimiter(probe.raw) => DelimiterByFormat(probe.plan.value)
        /\ IsGarbagePlan(probe.raw) => ConservativeDefault(probe.plan.value)

\* a plan of format text without delimiter was normalized and got the tab
C17_Witness ==
    /\ probe.kind = "norm"
    /\ probe.plan.some
    /\ KindOf(probe.raw) = "object"
    /\ DOMAIN probe.raw[2] = {"format"}
    /\ probe.raw[2]["format"] = JStr(F_text)
    /\ probe.plan.value.delimiter = <<"\t">>

\* C18: for a csv or tsv plan that carries a delimiter other than the default
\* of its format, the records are those of the lines split at the unquoted
\* occurrences of the plan's delimiter.
C18_SplitsAtPlanDelimiter ==
    (/\ probe.kind = "apply"
     /\ probe.done
     /\ \/ probe.plan.format = <<"c", "s", "v">> /\ probe.plan.delimiter # <<",">>
        \/ probe.plan.format = <<"t", "s", "v">> /\ probe.plan.delimiter # <<"\t">>)
    =>
        probe.records = BuildDelimitedRecords(probe.rawData, probe.plan.delimiter,
                                              HasHeaderOrTrue(probe.plan),
                                              SkipRowsOrZero(probe.plan))

\* the record holds the value under the key
Holds(record, key, value) ==
    /\ key \in DOMAIN record[2]
    /\ record[2][key] = JStr(value)

TokenAt(tokens, i) == IF i + 1 <= Len(tokens) THEN tokens[i + 1] ELSE <<>>

\* position i (from 0) is exposed under its three keys
ExposesPosition(record, headers, tokens, i) ==
    /\ Holds(record, headers[i + 1], TokenAt(tokens, i))
    /\ Holds(record, K_column \o NatToString(i + 1), TokenAt(tokens, i))
    /\ Holds(record, NatToString(i), TokenAt(tokens, i))

ExposesAll(records, headers, tokens) ==
    /\ Len(records) = 1
    /\ \A i \in 0..(Len(headers) - 1) : ExposesPosition(records[1], headers, tokens, i)

\* no name is the reserved key, the name of another position, or the column
\* key or index key of another position
PlainHeaders(headers) ==
    \A i \in DOMAIN headers :
        /\ headers[i] # <<"_", "_", "p", "a", "r", "t", "s">>
        /\ \A j \in DOMAIN headers \ {i} :
              /\ headers[i] # headers[j]
              /\ headers[i] # K_column \o NatToString(j)
              /\ headers[i] # NatToString(j - 1)

\* the three keys of position i (from 0)
KeysOfPosition(headers, i) ==
    {headers[i + 1], K_column \o NatToString(i + 1), NatToString(i)}

\* the last position a key belongs to
LastPosition(headers, key) ==
    CHOOSE i \in 0..(Len(headers) - 1) :
        /\ key \in KeysOfPosition(headers, i)
        /\ \A j \in (i + 1)..(Len(headers) - 1) : key \notin KeysOfPosition(headers, j)

\* a key of several positions holds the token of the last of them
HoldsLastAssigned(records, headers, tokens) ==
    /\ Len(records) = 1
    /\ \A i \in 0..(Len(headers) - 1) :
          \A key \in KeysOfPosition(headers, i) \ {<<"_", "_", "p", "a", "r", "t", "s">>} :
              Holds(records[1], key, TokenAt(tokens, LastPosition(headers, key)))

\* C19 as claimed: the record of a data line holds, for every header position
\* i, the i-th token of the line (the empty string when there is none) under
\* the header name, under column(i+1) and under the decimal string of i,
\* whatever the header row.
C19_ThreeKeysSameValue ==
    (probe.kind = "delim" /\ probe.done) =>
        ExposesAll(probe.records, probe.headers, probe.tokens)

\* C19 amended: the same for the header rows in which no name is __parts, the
\* name of another position, or the column key or index key of another
\* position; in every header row a key of several positions holds the token of
\* the last of them.
C19_ThreeKeysSameValuePlainHeaders ==
    /\ (probe.kind = "delim" /\ probe.done /\ PlainHeaders(probe.headers)) =>
           ExposesAll(probe.records, probe.headers, probe.tokens)
    /\ (probe.kind = "delim" /\ probe.done) =>
           HoldsLastAssigned(probe.records, probe.headers, probe.tokens)

\* a line with fewer tokens than the header row has names: the second name,
\* column2 and "1" hold the empty string
C19_Witness ==
    /\ probe.kind = "delim"
    /\ probe.done
    /\ probe.headers = <<<<"e">>, <<"c">>>>
    /\ probe.tokens = <<<<"u">>>>
    /\ Len(probe.records) = 1
    /\ Holds(probe.records[1], <<"c">>, <<>>)
    /\ Holds(probe.records[1], <<"1">>, <<>>)
    /\ Holds(probe.records[1], <<"e">>, <<"u">>)

Ideographs == {"U+732B", "U+8DD1"}

\* the position (from 0) of the first ideograph of a string, -1 without one
FirstIdeograph(s) ==
    IF \A i \in DOMAIN s : s[i] \notin Ideographs THEN -1
    ELSE (CHOOSE i \in DOMAIN s :
             s[i] \in Ideographs /\ \A j \in 1..(i - 1) : s[j] \notin Ideographs) - 1

EndsClean(s) ==
    s # <<>> => s[Len(s)] \notin {" ", "\t", "\n", "\r", ".", "U+3002", "U+FF0E"}

\* the two columns of a token t whose first ideograph is at position at > 0
IsSplitAt(columns, t, at) ==
    /\ Len(columns) = 2
    /\ EndsClean(columns[1])
    /\ Len(columns[1]) <= at
    /\ columns[1] = SubSeq(t, 1, Len(columns[1]))
    /\ columns[2] = SubSeq(t, at + 1, Len(t))

ExpandsAtIdeograph(columns, t) ==
    IF FirstIdeograph(t) > 0 THEN IsSplitAt(columns, t, FirstIdeograph(t))
    ELSE columns = <<t>>

\* C20: a token (taken trimmed) whose first ideograph is at a position greater
\* than zero becomes two columns, the text before the ideograph without
\* trailing whitespace and full stops and the rest from the ideograph on; any
\* other token stays one column.
C20_ExpandsAtFirstIdeograph ==
    (probe.kind = "expand" /\ probe.done) =>
        ExpandsAtIdeograph(probe.columns, Trim(probe.segment))

\* the string the tags field of the map resolves to, trimmed
ResolvedTagsString(record, fieldMap) ==
    Trim(CoerceToString(GetValueByPath(record, fieldMap.tags)))

\* step 1 when it splits: the tags of the text before the first ideograph and
\* the text from the ideograph on as chinese
SplitAtIdeograph(s, at) ==
    [chinese |-> Trim(StripLeadingPunctuation(SubSeq(s, at + 1, Len(s)))),
     tags |-> TagList(Trim(StripTrailingFullStops(Trim(SubSeq(s, 1, at)))))]

\* step 1 when it does not split: chinese as resolved, the tags of the whole
\* tags string
Unsplit(chinese, s) ==
    [chinese |-> chinese, tags |-> TagList(Trim(StripTrailingFullStops(s)))]

Step1Conditional(chinese, s) ==
    IF chinese = <<>> /\ FirstIdeograph(s) >= 0 THEN SplitAtIdeograph(s, FirstIdeograph(s))
    ELSE Unsplit(chinese, s)

\* C21: after step 1, when the resolved chinese is empty and the tags string
\* has a CJK character, the tags are those of the text before that character
\* and chinese is the text from it on; when the resolved chinese is not empty,
\* chinese is unchanged and the tags are those of the whole tags string.
C21_SplitOnlyWhenChineseEmpty ==
    (probe.kind = "repair" /\ probe.done) =>
        SameMeaning(probe.split,
                    Step1Conditional(Resolved(probe.record, probe.fieldMap.chinese),
                                     ResolvedTagsString(probe.record, probe.fieldMap)))

NoDuplicates(list) ==
    \A i, j \in DOMAIN list : list[i] = list[j] => i = j

\* C22: no tag occurs twice in the tags of a word applySmartImportPlan returns.
C22_TagsWithoutDuplicates ==
    (probe.kind = "apply" /\ probe.done) =>
        \A k \in DOMAIN probe.result.words : NoDuplicates(probe.result.words[k].tags.list)

EnglishKeys == <<"english", "English", "word", "Word", "column1", "Column1">>
ChineseKeys == <<"chinese", "Chinese", "meaning", "translation", "column2", "Column2">>
ExampleKeys == <<"example", "Example", "sentence", "Sentence", "column3", "Column3">>
TagsKeys == <<"tags", "Tags", "category", "Category">>

\* the member holds a string that is not blank
HoldsText(members, key) ==
    /\ key \in DOMAIN members
    /\ members[key][1] = "string"
    /\ \E i \in DOMAIN members[key][2] : members[key][2][i] \notin {" ", "\t", "\n", "\r"}

\* the trimmed value of the first key of the list that holds text; unset
\* without one
FirstText(members, keys, unset) ==
    LET hits == {i \in DOMAIN keys : HoldsText(members, keys[i])}
    IN  IF hits = {} THEN unset
        ELSE Trim(members[keys[CHOOSE i \in hits : \A j \in hits : i <= j]][2])

FieldsByPriority(fieldMap, members) ==
    /\ fieldMap.english = FirstText(members, EnglishKeys, <<"c", "o", "l", "u", "m", "n", "1">>)
    /\ fieldMap.chinese = FirstText(members, ChineseKeys, UndefinedString)
    /\ fieldMap.example = FirstText(members, ExampleKeys, UndefinedString)
    /\ fieldMap.tags = FirstText(members, TagsKeys, UndefinedString)

\* C23: each field of the normalized map is the trimmed value of the first key
\* of its priority list that holds a non-blank string; without such a key an
\* optional field is unset and english is "column1".
C23_FieldsByPriority ==
    (probe.kind = "norm" /\ probe.plan.some /\ "fieldMap" \in DOMAIN probe.raw[2]
     /\ probe.raw[2]["fieldMap"][1] = "object") =>
        FieldsByPriority(probe.plan.value.fieldMap, probe.raw[2]["fieldMap"][2])

\* Word and column1 both hold text: english is the trimmed value of Word
C23_Witness ==
    /\ probe.kind = "norm"
    /\ probe.plan.some
    /\ probe.raw = JObj([fieldMap |-> JObj([Word |-> JStr(<<" ", "v", " ">>),
                                            column1 |-> JStr(<<"u">>)])])
    /\ probe.plan.value.fieldMap.english = <<"v">>
    /\ probe.plan.value.fieldMap.chinese = UndefinedString

\* the lines that are not blank, in order
RECURSIVE NonBlankLines(_)
NonBlankLines(lines) ==
    IF lines = <<>> THEN <<>>
    ELSE (IF \A i \in DOMAIN Head(lines) : Head(lines)[i] \in {" ", "\t", "\r"}
          THEN <<>> ELSE <<Head(lines)>>)
         \o NonBlankLines(Tail(lines))

\* skipRows as a count of lines: an infinite one skips every line
SkipCount(skipRows, n) == IF skipRows[2] = "infinite" THEN n + 1 ELSE skipRows[3] \div 2

\* the record is the one of the line: it holds the tokens of the line
IsRecordOf(record, line) ==
    PartsArray(record) = [i \in DOMAIN Split(line, <<",">>) |->
                                JStr(Split(line, <<",">>)[i])]

\* the records are the lines from index from on (counted from 0), in order
AreLinesFrom(records, lines, from) ==
    /\ Len(records) = (IF from < Len(lines) THEN Len(lines) - from ELSE 0)
    /\ \A k \in DOMAIN records : IsRecordOf(records[k], lines[from + k])

\* every record has a key for every name
HaveKeys(records, names) ==
    \A k \in DOMAIN records : \A i \in DOMAIN names : names[i] \in DOMAIN records[k][2]

\* with header row: the names of line s, the lines after it
RowsAfterHeader(records, lines, s) ==
    /\ AreLinesFrom(records, lines, s + 1)
    /\ s < Len(lines) => HaveKeys(records, Split(lines[s + 1], <<",">>))

\* without header row: column1..columnK of line s, the lines from it on
RowsFromSample(records, lines, s) ==
    /\ AreLinesFrom(records, lines, s)
    /\ s < Len(lines) =>
          \A k \in DOMAIN records :
              {key \in DOMAIN records[k][2] :
                  Len(key) > 6 /\ SubSeq(key, 1, 6) = K_column}
                  = {K_column \o NatToString(i) : i \in DOMAIN Split(lines[s + 1], <<",">>)}

SelectsRows(records, lines, hasHeader, s) ==
    IF hasHeader THEN RowsAfterHeader(records, lines, s)
    ELSE RowsFromSample(records, lines, s)

\* C24: of the n non-blank lines, with a header row the records are the lines
\* after the line at index skipRows, whose names are keys of every record;
\* without header row the records are the lines from that index on, keyed
\* column1..columnK for the K tokens of the line at that index.  Blank lines
\* are not counted and give no record.
C24_DelimitedRowSelection ==
    (probe.kind = "rows" /\ probe.done) =>
        SelectsRows(probe.records, NonBlankLines(probe.lines), probe.hasHeader,
                    SkipCount(probe.skipRows, Len(probe.lines)))

\* three lines, the second blank, no header row, one row skipped: the one
\* record is the last line, keyed by the two columns of that line
C24_Witness ==
    /\ probe.kind = "rows"
    /\ probe.done
    /\ probe.lines = <<<<"u">>, <<" ">>, <<"v", ",", "w">>>>
    /\ ~probe.hasHeader
    /\ probe.skipRows = JNum(2)
    /\ Len(probe.records) = 1
    /\ PartsArray(probe.records[1]) = <<JStr(<<"v">>), JStr(<<"w">>)>>

\* the record yields a word: its fields convert and its english is not empty
YieldsWord(record, fieldMap) ==
    /\ ~RecordThrows(record, fieldMap)
    /\ Resolved(record, fieldMap.english) # <<>>

\* the words are those of the records that yield one, in the order of the records
KeepsEveryWord(returned, records, fieldMap) ==
    LET Yields(record) == YieldsWord(record, fieldMap)
    IN  /\ Len(returned) = Len(SelectSeq(records, Yields))
        /\ \A k \in DOMAIN returned :
               returned[k].english = Resolved(SelectSeq(records, Yields)[k], fieldMap.english)

WellFormedWords(returned) ==
    /\ \A k \in DOMAIN returned :
           /\ returned[k].english # <<>>
           /\ Trim(returned[k].english) = returned[k].english
    /\ \A j, k \in DOMAIN returned :
           j < k => /\ returned[j].createdAt < returned[k].createdAt
                    /\ returned[j].id # returned[k].id

\* C25: every word applySmartImportPlan returns has a non-empty, trimmed
\* english; the records with an empty english are dropped and every other
\* record is kept, in extraction order; createdAt increases strictly along the
\* list and the ids are pairwise distinct.
C25_KeepsRecordsWithEnglish ==
    (probe.kind = "apply" /\ probe.done) =>
        /\ WellFormedWords(probe.result.words)
        /\ KeepsEveryWord(probe.result.words, probe.records, probe.plan.fieldMap)

\* the positions, counted from 1, of the lines that are not blank
NonBlankPositions(lines) ==
    LET IsNonBlank(i) == NonBlankLines(<<lines[i]>>) # <<>>
    IN  SelectSeq([i \in DOMAIN lines |-> i], IsNonBlank)

\* the tokens of the line: its pieces between delimiters, each one expanded
ExpandedTokens(line, delimiter) == ExpandAll(Split(Trim(line), delimiter))

\* the record stores the tokens under column1..columnK and under __parts
StoresTokens(record, tokens) ==
    /\ PartsArray(record) = [i \in DOMAIN tokens |-> JStr(tokens[i])]
    /\ \A i \in DOMAIN tokens : Holds(record, ColumnKey(i), tokens[i])
    /\ ColumnKey(Len(tokens) + 1) \notin DOMAIN record[2]

LineOf(record) == IF K_line \in DOMAIN record[2] THEN record[2][K_line] ELSE JUndefined

\* one record for each non-blank line, in order, with the tokens of the line
OneRecordEachLine(records, lines, delimiter) ==
    /\ Len(records) = Len(NonBlankPositions(lines))
    /\ \A k \in DOMAIN records :
           StoresTokens(records[k], ExpandedTokens(lines[NonBlankPositions(lines)[k]],
                                                   delimiter))

TextDelimiter(plan) == IF plan.delimiter = UndefinedString THEN <<"\t">> ELSE plan.delimiter

IsTextRun == probe.kind = "apply" /\ probe.done /\ "lines" \in DOMAIN probe

\* C26: in the text format every non-blank line gives one record, in input
\* order; the record stores the expanded tokens of the line under
\* column1..columnK and under __parts, and __line is the number of the line in
\* the input, counted from 1.
C26_TextRecordPerLine ==
    IsTextRun =>
        /\ OneRecordEachLine(probe.records, probe.lines, TextDelimiter(probe.plan))
        /\ \A k \in DOMAIN probe.records :
               LineOf(probe.records[k]) = JNum(2 * NonBlankPositions(probe.lines)[k])

\* C26, amended: as above, with __line the position of the line among the
\* non-blank lines, counted from 1.
C26_TextRecordPerNonBlankLine ==
    IsTextRun =>
        /\ OneRecordEachLine(probe.records, probe.lines, TextDelimiter(probe.plan))
        /\ \A k \in DOMAIN probe.records : LineOf(probe.records[k]) = JNum(2 * k)

\* "a", a blank line, "a<TAB>n.<ideograph>": two records, the second with
\* three tokens and __line 2
C26_Witness ==
    /\ IsTextRun
    /\ probe.lines = <<<<"a">>, <<" ">>, <<"a", "\t", "n", ".", "U+732B">>>>
    /\ TextDelimiter(probe.plan) = <<"\t">>
    /\ Len(probe.records) = 2
    /\ PartsArray(probe.records[2]) = <<JStr(<<"a">>), JStr(<<"n">>), JStr(<<"U+732B">>)>>
    /\ LineOf(probe.records[2]) = JNum(4)

\* the ids of the words of a list
IdsOf(list) == {list[i].id : i \in DOMAIN list}

\* C27: in every state from the start of the application on, the list stored
\* under lingovault_data holds every word that was stored there before the
\* start and that the user has not deleted.
C27_StoredWordsNeverLost ==
    probe.kind = "vault" =>
        (IdsOf(probe.stored) \ probe.deleted) \subseteq IdsOf(localStorage)

\* no two items of the list have the same trimmed, lower-cased english
UniqueEnglish(list) ==
    \A i, j \in DOMAIN list :
        EnglishNormalized(list[i]) = EnglishNormalized(list[j]) => i = j

\* C28: after any sequence of operations on the collection (add, edit, delete,
\* toggle mastered, file import), no two items of the collection have the same
\* trimmed, lower-cased english.
C28_CollectionWideUniqueness ==
    probe.kind = "vault" => UniqueEnglish(words)

SuppliesDelimiter(raw) ==
    /\ KindOf(raw) = "object"
    /\ "delimiter" \in DOMAIN raw[2]
    /\ KindOf(raw[2]["delimiter"]) = "string"
    /\ raw[2]["delimiter"][2] # <<>>

\* C30: a delimiter the raw plan supplies as a non-empty string, a tab or a
\* blank included, is the delimiter of the normalized plan, unchanged.
C30_SuppliedDelimiterPreserved ==
    (probe.kind = "norm" /\ probe.plan.some /\ SuppliesDelimiter(probe.raw)) =>
        probe.plan.value.delimiter = probe.raw[2]["delimiter"][2]

====
